---- MODULE Spec2Model ----
(***************************************************************************)
(* FastGram backend: the post / like / comment handlers (routes/posts.js,  *)
(* kept in src/routes/users.js from line 696 on), the group handlers       *)
(* (src/routes/groups.js) and the token middleware (middleware/auth.js,    *)
(* kept in src/IMAGE_UPLOAD_IMPLEMENTATION.md from line 308 on).           *)
(*                                                                         *)
(* Every handler is an async function: each `await` of a query is one      *)
(* atomic step, and the steps of the requests in flight interleave.  The   *)
(* store is PostgreSQL at its default isolation level (READ COMMITTED): a  *)
(* statement reads the committed rows, the writes of an open transaction   *)
(* are invisible to the others until COMMIT, and a statement that needs a  *)
(* row another open transaction has written or locked waits for it.  The   *)
(* rows an open transaction has written follow from its position (pc), so  *)
(* the committed tables change at COMMIT steps (and at the statements      *)
(* issued outside a transaction, which commit on their own).               *)
(***************************************************************************)
EXTENDS Integers, FiniteSets, Sequences, Bags, TLC

VARIABLES
    posts,       \* committed rows of table posts: id -> row
    postSeq,     \* last value of the posts id sequence (SERIAL)
    likes,       \* committed rows of table likes: set of <<user_id, post_id>>
    comments,    \* committed rows of table comments: id -> row
    commentSeq,  \* last value of the comments id sequence
    groups,      \* committed rows of table groups: id -> row
    groupSeq,    \* last value of the groups id sequence
    members,     \* committed rows of table group_members: set of rows
    req,         \* the requests: slot -> request record (in flight or answered)
    users,       \* rows of table users: id -> row
    refresh_tokens,  \* rows of table refresh_tokens: set of rows
    now,         \* the clock, in the seconds the tokens are stamped with
    used,        \* history: the token strings POST /auth/refresh has accepted
    areq,        \* the request to an /api/auth route (in flight or answered)
    env,         \* process.env.JWT_REFRESH_EXPIRES_IN, in clock seconds
    timer,       \* the setInterval timer of the sweep: when it is due next, and
                 \* whether the process still runs it
    followers    \* rows of table followers: bag of <<follower_id, following_id>>

vars == <<posts, postSeq, likes, comments, commentSeq, groups, groupSeq, members, req,
          users, refresh_tokens, now, used, areq, env, timer, followers>>

\* the state of the token service
auth == <<users, refresh_tokens, now, used, areq, env, timer>>

dbPosts == <<posts, postSeq, likes, comments, commentSeq>>

dbGroups == <<groups, groupSeq, members>>

db == <<dbPosts, dbGroups, followers>>

---------------------------------------------------------------------------
(* Bounds of the model *)

MaxPosts == 2        \* post ids ever handed out
MaxComments == 1     \* comment ids ever handed out
MaxGroups == 1       \* group ids ever handed out

Users == {1, 2}      \* users.id of the registered, active users
Slots == {1, 2}      \* requests that can be in flight at the same time
PostIds == 1..MaxPosts
CommentIds == 1..MaxComments
GroupIds == 1..MaxGroups

NoResp == 0

\* a body field that the request does not carry
Undefined == "undefined"

\* SQL NULL in posts.group_id (a post outside the groups) and in posts.image_url
Null == 0
NoUrl == "null"

\* a request: the handler (op), its position (pc), req.user.id, the path and body
\* parameters, and what its transaction has done so far: rows is the rowCount of
\* its insert or delete, hit tells whether its counter UPDATE found the row,
\* client whether it holds a client of the pool, logged which error was
\* written with console.error on its way out ("error": the one that brought
\* control to the catch block, "rollback": that of the ROLLBACK in the catch
\* block, "media": that of deleteFromCloudinary)
Idle == [op |-> "idle", pc |-> "idle", resp |-> NoResp, userId |-> 0,
         postId |-> 0, commentId |-> 0, groupId |-> 0, memberId |-> 0,
         arg |-> 0, rows |-> 0, hit |-> FALSE, client |-> FALSE, logged |-> "",
         message |-> "", feed |-> << >>]

\* the handlers whose first statement is const client = await pool.connect()
ConnectsAtEntry == {"like", "unlike", "addComment", "deleteComment", "deleteGroup",
                    "joinGroup", "addMember", "removeMember",
                    "createGroupPost", "deleteGroupPost"}

\* a request to a post handler
NewReq(o, u, p, c, a, start) ==
    [Idle EXCEPT !.op = o, !.pc = start, !.userId = u, !.postId = p,
                 !.commentId = c, !.arg = a, !.client = o \in ConnectsAtEntry]

\* a request to a group handler
NewGroupReq(o, u, g, m, a, start) ==
    [Idle EXCEPT !.op = o, !.pc = start, !.userId = u, !.groupId = g,
                 !.memberId = m, !.arg = a, !.client = o \in ConnectsAtEntry]

Free(r) == req[r].pc \in {"idle", "done"}

\* a new request takes the lowest free slot (the slots are interchangeable)
CanStart(r) == Free(r) /\ \A s \in Slots : s < r => ~Free(s)

\* the request in slot r becomes f
Step(r, f) == req' = [req EXCEPT ![r] = f] /\ UNCHANGED auth

Goto(r, l) == Step(r, [req[r] EXCEPT !.pc = l])

\* mutation: the handler answers and returns without releasing its client
RespondNoRelease(r, code) ==
    Step(r, [Idle EXCEPT !.op = req[r].op, !.pc = "done", !.resp = code,
                         !.client = req[r].client])

\* res.status(code).json(...) as the last thing the handler does, and the
\* finally { client.release() } that follows it: the slot keeps the handler's
\* name and the status code until the next request takes it
Respond(r, code) == Step(r, [Idle EXCEPT !.op = req[r].op, !.pc = "done", !.resp = code])

At(r, o, l) == req[r].op = o /\ req[r].pc = l

---------------------------------------------------------------------------
(* Row locks held by the open transactions *)

\* an uncommitted INSERT INTO likes by s
InsertsLike(s) == req[s].op = "like" /\ req[s].pc \in {"update", "commit"}

\* an uncommitted DELETE FROM likes by s (rowCount = 1)
DeletesLike(s) == req[s].op = "unlike" /\ req[s].pc \in {"update", "commit"}

\* an uncommitted INSERT INTO comments by s
InsertsComment(s) == req[s].op = "addComment" /\ req[s].pc \in {"update", "commit"}

\* an uncommitted DELETE FROM comments by s that found the row
DeletesComment(s) ==
    /\ req[s].op = "deleteComment" /\ req[s].pc \in {"update", "commit"}
    /\ req[s].commentId \in DOMAIN comments

\* s has updated a counter of posts row p and not committed yet
UpdatesPost(s, p) ==
    /\ req[s].op \in {"like", "unlike", "addComment", "deleteComment"}
    /\ req[s].pc = "commit" /\ req[s].hit /\ req[s].postId = p

\* s holds the key-share lock the foreign key check of its insert took on p
SharesPost(s, p) == (InsertsLike(s) \/ InsertsComment(s)) /\ req[s].postId = p

\* s has deleted, and not committed, a row that the cascade of posts row p covers
DeletesChildOf(s, p) ==
    \/ DeletesLike(s) /\ req[s].postId = p
    \/ DeletesComment(s) /\ comments[req[s].commentId].post_id = p

LikeKeyBusy(r, u, p) ==
    \E s \in Slots \ {r} :
        (InsertsLike(s) \/ DeletesLike(s)) /\ req[s].userId = u /\ req[s].postId = p

PostRowBusy(r, p) == \E s \in Slots \ {r} : UpdatesPost(s, p)

PostDeleteBlocked(r, p) ==
    \E s \in Slots \ {r} : UpdatesPost(s, p) \/ SharesPost(s, p) \/ DeletesChildOf(s, p)

\* an uncommitted INSERT INTO group_members by s (rowCount = 1)
InsertsMember(s) ==
    /\ req[s].op \in {"joinGroup", "addMember"}
    /\ req[s].pc \in {"update", "commit"} /\ req[s].rows = 1

\* an uncommitted DELETE FROM group_members by s (rowCount = 1)
DeletesMember(s) == req[s].op = "removeMember" /\ req[s].pc \in {"update", "commit"}

\* an uncommitted DELETE FROM groups by s (rowCount = 1), with its cascade
DeletesGroup(s, g) == req[s].op = "deleteGroup" /\ req[s].pc = "commit" /\ req[s].groupId = g

\* s has updated members_count of groups row g and not committed yet
UpdatesGroup(s, g) ==
    /\ req[s].op \in {"joinGroup", "addMember", "removeMember"}
    /\ req[s].pc = "commit" /\ req[s].hit /\ req[s].groupId = g

MemberKeyBusy(r, g, u) ==
    \E s \in Slots \ {r} :
        \/ (InsertsMember(s) \/ DeletesMember(s))
              /\ req[s].groupId = g /\ req[s].memberId = u
        \/ DeletesGroup(s, g)

GroupRowBusy(r, g) == \E s \in Slots \ {r} : UpdatesGroup(s, g) \/ DeletesGroup(s, g)

GroupDeleteBlocked(r, g) ==
    \E s \in Slots \ {r} :
        \/ UpdatesGroup(s, g) \/ DeletesGroup(s, g)
        \/ (InsertsMember(s) \/ DeletesMember(s)) /\ req[s].groupId = g

---------------------------------------------------------------------------
(* Tokens (middleware/auth.js) *)

MaxClock == 3             \* seconds the clock runs for
JwtExpiresIn == 1         \* JWT_EXPIRES_IN ('15m'), in clock seconds
JwtRefreshExpiresIn == 2  \* JWT_REFRESH_EXPIRES_IN ('7d'), in clock seconds
SevenDays == 2            \* the 7 days of storeRefreshToken, in clock seconds
MaxRefreshLifetime == 3   \* longest JWT_REFRESH_EXPIRES_IN a deployment sets
SweepInterval == 1        \* the 60 * 60 * 1000 ms of setInterval, in clock seconds

\* the values JWT_REFRESH_EXPIRES_IN can be configured to
RefreshLifetimes == 1..MaxRefreshLifetime

\* the two secrets: JWT_SECRET and JWT_REFRESH_SECRET
Secrets == {"access", "refresh"}

ExpiresIn(secret) == IF secret = "access" THEN JwtExpiresIn ELSE env

\* jwt.sign({ userId }, secret, { expiresIn }): the signed string is a function of
\* the payload {userId, iat, exp} and of the secret, and of nothing else
Sign(userId, secret) ==
    [secret |-> secret, userId |-> userId, iat |-> now, exp |-> now + ExpiresIn(secret)]

generateTokens(userId) ==
    [accessToken |-> Sign(userId, "access"), refreshToken |-> Sign(userId, "refresh")]

\* jwt.verify inside try/catch: TRUE when it returns the payload, FALSE for null
verifyToken(token, secret) == token.secret = secret /\ now < token.exp

\* a string that no secret has signed
Garbage == [secret |-> "none", userId |-> 0, iat |-> 0, exp |-> 0]

\* the strings a client can hold: what the server signed for a user at some
\* second up to now, and garbage
TokenInputs ==
    {Garbage} \cup
    {[secret |-> s, userId |-> u, iat |-> t, exp |-> t + ExpiresIn(s)] :
        s \in Secrets, u \in Users, t \in 0..now}

RefreshTokenInputs == {t \in TokenInputs : t.secret # "access"}

\* the INSERT of storeRefreshToken is rejected: token is UNIQUE, user_id
\* REFERENCES users(id)
StoreRejected(rows, userId, token) ==
    \/ \E t \in rows : t.token = token
    \/ userId \notin DOMAIN users

\* table refresh_tokens after storeRefreshToken(userId, refreshToken)
storeRefreshToken(rows, userId, refreshToken) ==
    rows \cup {[user_id |-> userId, token |-> refreshToken, expires_at |-> now + SevenDays]}

\* the Authorization header: the number of its blank-separated parts (0: no
\* header) and the second part
Headers ==
    {[parts |-> 0, token |-> Garbage], [parts |-> 1, token |-> Garbage]} \cup
    {[parts |-> 2, token |-> t] : t \in TokenInputs}

\* authHeader && authHeader.split(' ')[1] is truthy
HasToken(header) == header.parts >= 2

\* a request to an /api/auth route
AIdle == [op |-> "idle", pc |-> "idle", resp |-> NoResp, message |-> "",
          header |-> [parts |-> 0, token |-> Garbage], token |-> Garbage, user |-> 0,
          nexts |-> 0, logged |-> ""]

AFree == areq.pc \in {"idle", "done"}

\* res.status(code).json({ message })
ARespond(code, msg) ==
    areq' = [AIdle EXCEPT !.op = areq.op, !.pc = "done", !.resp = code, !.message = msg]

\* the accounts exist and are active when the model starts
InitAuth ==
    /\ users = [u \in Users |-> [is_active |-> TRUE]]
    /\ refresh_tokens = {}
    /\ now = 0
    /\ used = {}
    /\ areq = AIdle
    /\ env = JwtRefreshExpiresIn
    /\ timer = [due |-> SweepInterval, alive |-> TRUE]

---------------------------------------------------------------------------
(* Table operations *)

\* mutation: the decrement without GREATEST(..., 0)
Floor0Unfloored(n) == n

\* GREATEST(n, 0)
Floor0(n) == IF n > 0 THEN n ELSE 0

LikesOf(p) == {l \in likes : l[2] = p}

CommentsOf(p) == {c \in DOMAIN comments : comments[c].post_id = p}

\* mutation: the foreign keys of likes and comments do not cascade
DeletePostNoCascade(p) ==
    /\ posts' = [q \in DOMAIN posts \ {p} |-> posts[q]]
    /\ likes' = likes
    /\ comments' = comments

\* DELETE FROM posts WHERE id = p, with the ON DELETE CASCADE of likes and comments
CascadeDeletePost(p) ==
    /\ posts' = [q \in DOMAIN posts \ {p} |-> posts[q]]
    /\ likes' = {l \in likes : l[2] # p}
    /\ comments' = [c \in DOMAIN comments \ CommentsOf(p) |-> comments[c]]

\* the posts of group g
PostsOfGroup(g) == {p \in DOMAIN posts : posts[p].group_id = g}

\* the group_members rows of group g and user u (at most one: the pair is unique)
MemberRows(g, u) == {m \in members : m.group_id = g /\ m.user_id = u}

\* SELECT role FROM group_members WHERE group_id = $1 AND user_id = $2, then
\* rows.length > 0 && rows[0].role === 'admin'
IsAdmin(g, u) == \E m \in MemberRows(g, u) : m.role = "admin"

NoRows == [x \in {} |-> 0]

InitPosts ==
    /\ posts = NoRows
    /\ postSeq = 0
    /\ likes = {}
    /\ comments = NoRows
    /\ commentSeq = 0

InitGroups ==
    /\ groups = NoRows
    /\ groupSeq = 0
    /\ members = {}

Init ==
    /\ InitPosts
    /\ InitGroups
    /\ InitAuth
    /\ followers = EmptyBag
    /\ req = [r \in Slots |-> Idle]

---------------------------------------------------------------------------
(* Steps shared by the handlers *)

\* the positions at which a handler awaits a query inside its try block
QueryPcs == {"begin", "selPost", "selLike", "selComment", "select", "selAdmin", "insert",
             "selUser", "selFollow",
             "insGroup", "insMember", "delete", "update", "commit",
             "rb403", "rb404", "rb409"}

\* await client.query('BEGIN')
Begin(r) ==
    /\ req[r].pc = "begin"
    /\ Goto(r, CASE req[r].op = "like" -> "selPost"
                 [] req[r].op = "unlike" -> "delete"
                 [] req[r].op = "addComment" -> "selPost"
                 [] req[r].op = "deleteComment" -> "selComment"
                 [] req[r].op = "createGroup" -> "insGroup"
                 [] req[r].op = "deleteGroup" -> "delete"
                 [] req[r].op = "joinGroup" -> "insert"
                 [] req[r].op = "addMember" -> "insert"
                 [] req[r].op = "removeMember" -> "delete")
    /\ UNCHANGED db

\* await client.query('ROLLBACK'); return res.status(4xx).json(...)
RollbackReturn(r) ==
    /\ req[r].pc \in {"rb403", "rb404", "rb409"}
    /\ Respond(r, CASE req[r].pc = "rb403" -> 403
                    [] req[r].pc = "rb404" -> 404
                    [] req[r].pc = "rb409" -> 409)
    /\ UNCHANGED db

\* an awaited query rejects (connection lost, statement timeout, deadlock victim):
\* control passes to the catch block and the open transaction is aborted
QueryFails(r) ==
    /\ req[r].pc \in QueryPcs
    /\ Goto(r, "catch")
    /\ UNCHANGED db

\* the message of the 500 that the catch blocks of the handlers send
InternalServerError == "Internal server error"

\* what the global error handler of app.js sends: err.message || "Internal
\* server error", the text of the error of the store when it has one
ErrMessage == "err.message"

\* an async handler's promise rejects outside every try block: the router drops
\* the rejection and nothing is answered, or passes it to the global error
\* handler, which logs it and answers err.status || 500 with err.message,
\* depending on the version of express installed
Unhandled(r, o) ==
    \E handled \in BOOLEAN :
        Step(r, [Idle EXCEPT !.op = o, !.pc = "done",
                             !.resp = IF handled THEN 500 ELSE NoResp,
                             !.logged = IF handled THEN "global" ELSE "",
                             !.message = IF handled THEN ErrMessage ELSE ""])

\* const client = await pool.connect() rejects (pool exhausted, store down):
\* the call stands before the try block of the handler
ConnectFails(r) ==
    /\ CanStart(r)
    /\ \E o \in ConnectsAtEntry : Unhandled(r, o)
    /\ UNCHANGED db

\* catch (error) { await client.query('ROLLBACK'); console.error(..., error);
\* res.status(500).json(...) } (the handlers without a transaction only log
\* and send the 500)
Catch(r) ==
    /\ req[r].pc = "catch"
    /\ Step(r, [Idle EXCEPT !.op = req[r].op, !.pc = "done", !.resp = 500,
                            !.logged = "error", !.message = InternalServerError])
    /\ UNCHANGED db

\* the handlers whose catch block starts with await client.query('ROLLBACK')
RollbackInCatch == {"like", "unlike", "addComment", "deleteComment", "createGroup",
                    "deleteGroup", "joinGroup", "addMember", "removeMember"}

\* the ROLLBACK of the catch block rejects as well: the rest of the block
\* (console.error of the first error, res.status(500)) is skipped, finally
\* releases the client and the rejection leaves the handler. createGroup has
\* an outer catch, which logs the second error and answers 500; elsewhere the
\* rejected promise of the handler is either dropped by the router (no answer)
\* or passed to the global error handler of app.js, which logs the second
\* error and answers 500, depending on the version of express installed
CatchRollbackFails(r) ==
    /\ req[r].pc = "catch" /\ req[r].op \in RollbackInCatch
    /\ \E handled \in IF req[r].op = "createGroup" THEN {TRUE} ELSE BOOLEAN :
          Step(r, [Idle EXCEPT !.op = req[r].op, !.pc = "done",
                               !.resp = IF handled THEN 500 ELSE NoResp,
                               !.logged = IF handled THEN "rollback" ELSE "",
                               !.message = IF ~handled THEN ""
                                           ELSE IF req[r].op = "createGroup"
                                                  THEN InternalServerError
                                                  ELSE ErrMessage])
    /\ UNCHANGED db

---------------------------------------------------------------------------
(* POST /api/posts/:postId/like *)

StartLike(r) ==
    /\ CanStart(r)
    /\ \E u \in Users, p \in PostIds :
          Step(r, NewReq("like", u, p, 0, 0, "begin"))
    /\ UNCHANGED db

LikeSelectPost(r) ==
    /\ At(r, "like", "selPost")
    /\ Goto(r, IF req[r].postId \in DOMAIN posts THEN "selLike" ELSE "rb404")
    /\ UNCHANGED db

\* the handler without its "already liked" answer
LikeSelectLikeNoConflict(r) ==
    /\ At(r, "like", "selLike")
    /\ Goto(r, "insert")
    /\ UNCHANGED db

LikeSelectLike(r) ==
    /\ At(r, "like", "selLike")
    /\ Goto(r, IF <<req[r].userId, req[r].postId>> \in likes THEN "rb409" ELSE "insert")
    /\ UNCHANGED db

\* the insert sent through pool.query: it runs on another connection and commits
\* on its own
LikeInsertViaPool(r) ==
    /\ At(r, "like", "insert")
    /\ ~LikeKeyBusy(r, req[r].userId, req[r].postId)
    /\ IF \/ req[r].postId \notin DOMAIN posts
          \/ <<req[r].userId, req[r].postId>> \in likes
       THEN Goto(r, "catch") /\ likes' = likes
       ELSE Goto(r, "update") /\ likes' = likes \cup {<<req[r].userId, req[r].postId>>}
    /\ UNCHANGED <<posts, postSeq, comments, commentSeq, dbGroups, followers>>

\* INSERT INTO likes: waits for an open transaction that wrote the same key, then
\* fails on UNIQUE(user_id, post_id) or on the foreign key to posts
LikeInsert(r) ==
    /\ At(r, "like", "insert")
    /\ ~LikeKeyBusy(r, req[r].userId, req[r].postId)
    /\ Goto(r, IF \/ req[r].postId \notin DOMAIN posts
                  \/ <<req[r].userId, req[r].postId>> \in likes
               THEN "catch" ELSE "update")
    /\ UNCHANGED db

\* UPDATE posts SET likes_count = likes_count + 1 WHERE id = $1
LikeUpdate(r) ==
    /\ At(r, "like", "update")
    /\ ~PostRowBusy(r, req[r].postId)
    /\ Step(r, [req[r] EXCEPT !.pc = "commit", !.hit = req[r].postId \in DOMAIN posts])
    /\ UNCHANGED db

LikeCommit(r) ==
    /\ At(r, "like", "commit")
    /\ likes' = likes \cup {<<req[r].userId, req[r].postId>>}
    /\ posts' = IF req[r].hit
                THEN [posts EXCEPT ![req[r].postId].likes_count = @ + 1]
                ELSE posts
    /\ Respond(r, 200)
    /\ UNCHANGED <<postSeq, comments, commentSeq, dbGroups, followers>>

---------------------------------------------------------------------------
(* DELETE /api/posts/:postId/like *)

StartUnlike(r) ==
    /\ CanStart(r)
    /\ \E u \in Users, p \in PostIds :
          Step(r, NewReq("unlike", u, p, 0, 0, "begin"))
    /\ UNCHANGED db

\* the delete with its rowCount ignored
UnlikeDeleteNoRowCount(r) ==
    /\ At(r, "unlike", "delete")
    /\ Goto(r, "update")
    /\ UNCHANGED db

\* DELETE FROM likes WHERE user_id = $1 AND post_id = $2; rowCount === 0 -> 404
UnlikeDelete(r) ==
    /\ At(r, "unlike", "delete")
    /\ ~\E s \in Slots \ {r} :
          DeletesLike(s) /\ req[s].userId = req[r].userId /\ req[s].postId = req[r].postId
    /\ Goto(r, IF <<req[r].userId, req[r].postId>> \in likes THEN "update" ELSE "rb404")
    /\ UNCHANGED db

\* UPDATE posts SET likes_count = GREATEST(likes_count - 1, 0) WHERE id = $1
UnlikeUpdate(r) ==
    /\ At(r, "unlike", "update")
    /\ ~PostRowBusy(r, req[r].postId)
    /\ Step(r, [req[r] EXCEPT !.pc = "commit", !.hit = req[r].postId \in DOMAIN posts])
    /\ UNCHANGED db

UnlikeCommit(r) ==
    /\ At(r, "unlike", "commit")
    /\ likes' = likes \ {<<req[r].userId, req[r].postId>>}
    /\ posts' = IF req[r].hit
                THEN [posts EXCEPT ![req[r].postId].likes_count = Floor0(@ - 1)]
                ELSE posts
    /\ Respond(r, 200)
    /\ UNCHANGED <<postSeq, comments, commentSeq, dbGroups, followers>>

---------------------------------------------------------------------------
(* POST /api/posts/:postId/comments *)

\* arg: validationResult(req).isEmpty(), the commentText being 1..500 characters
StartAddComment(r) ==
    /\ CanStart(r)
    /\ \E u \in Users, p \in PostIds, valid \in BOOLEAN :
          Step(r, NewReq("addComment", u, p, 0, valid, "validate"))
    /\ UNCHANGED db

AddCommentValidate(r) ==
    /\ At(r, "addComment", "validate")
    /\ IF req[r].arg THEN Goto(r, "begin") ELSE Respond(r, 400)
    /\ UNCHANGED db

AddCommentSelectPost(r) ==
    /\ At(r, "addComment", "selPost")
    /\ Goto(r, IF req[r].postId \in DOMAIN posts THEN "insert" ELSE "rb404")
    /\ UNCHANGED db

\* INSERT INTO comments ... RETURNING id: the id comes from the sequence, which a
\* rollback does not give back; the foreign key to posts fails on a deleted post
AddCommentInsert(r) ==
    /\ At(r, "addComment", "insert")
    /\ commentSeq < MaxComments
    /\ commentSeq' = commentSeq + 1
    /\ Step(r, [req[r] EXCEPT !.pc = IF req[r].postId \in DOMAIN posts
                                      THEN "update" ELSE "catch",
                            !.commentId = commentSeq + 1])
    /\ UNCHANGED <<posts, postSeq, likes, comments, dbGroups, followers>>

\* UPDATE posts SET comments_count = comments_count + 1 WHERE id = $1
AddCommentUpdate(r) ==
    /\ At(r, "addComment", "update")
    /\ ~PostRowBusy(r, req[r].postId)
    /\ Step(r, [req[r] EXCEPT !.pc = "commit", !.hit = req[r].postId \in DOMAIN posts])
    /\ UNCHANGED db

AddCommentCommit(r) ==
    /\ At(r, "addComment", "commit")
    /\ comments' = [c \in DOMAIN comments \cup {req[r].commentId} |->
                      IF c = req[r].commentId
                      THEN [user_id |-> req[r].userId, post_id |-> req[r].postId]
                      ELSE comments[c]]
    /\ posts' = IF req[r].hit
                THEN [posts EXCEPT ![req[r].postId].comments_count = @ + 1]
                ELSE posts
    /\ Respond(r, 201)
    /\ UNCHANGED <<postSeq, likes, commentSeq, dbGroups, followers>>

---------------------------------------------------------------------------
(* DELETE /api/posts/:postId/comments/:commentId *)

StartDeleteComment(r) ==
    /\ CanStart(r)
    /\ \E u \in Users, p \in PostIds, c \in CommentIds :
          Step(r, NewReq("deleteComment", u, p, c, 0, "begin"))
    /\ UNCHANGED db

\* SELECT user_id, post_id FROM comments WHERE id = $1, then the two checks
DeleteCommentSelect(r) ==
    /\ At(r, "deleteComment", "selComment")
    /\ Goto(r, IF req[r].commentId \notin DOMAIN comments THEN "rb404"
               ELSE IF comments[req[r].commentId].user_id # req[r].userId THEN "rb403"
               ELSE "delete")
    /\ UNCHANGED db

\* DELETE FROM comments WHERE id = $1 (the rowCount is not looked at)
DeleteCommentDelete(r) ==
    /\ At(r, "deleteComment", "delete")
    /\ ~\E s \in Slots \ {r} : DeletesComment(s) /\ req[s].commentId = req[r].commentId
    /\ Goto(r, "update")
    /\ UNCHANGED db

\* the post whose counter the handler decrements: req.params.postId
DeleteCommentCounterPost(r) == req[r].postId

\* UPDATE posts SET comments_count = GREATEST(comments_count - 1, 0) WHERE id = $1
DeleteCommentUpdate(r) ==
    /\ At(r, "deleteComment", "update")
    /\ ~PostRowBusy(r, DeleteCommentCounterPost(r))
    /\ Step(r, [req[r] EXCEPT !.pc = "commit",
                            !.postId = DeleteCommentCounterPost(r),
                            !.hit = DeleteCommentCounterPost(r) \in DOMAIN posts])
    /\ UNCHANGED db

DeleteCommentCommit(r) ==
    /\ At(r, "deleteComment", "commit")
    /\ comments' = [c \in DOMAIN comments \ {req[r].commentId} |-> comments[c]]
    /\ posts' = IF req[r].hit
                THEN [posts EXCEPT ![req[r].postId].comments_count = Floor0(@ - 1)]
                ELSE posts
    /\ Respond(r, 200)
    /\ UNCHANGED <<postSeq, likes, commentSeq, dbGroups, followers>>

---------------------------------------------------------------------------
(* POST /api/posts *)

\* the caption of a request body: absent, a caption within the 2200 characters
\* that createPostValidation / updatePostValidation allow, or a longer one
CaptionInputs == {Undefined, "hello", "too long"}
CaptionValid(c) == c # "too long"

StartCreatePost(r, captions) ==
    /\ CanStart(r)
    /\ \E u \in Users, c \in captions, f \in BOOLEAN :
          Step(r, NewReq("createPost", u, 0, 0, [caption |-> c, file |-> f], "validate"))
    /\ UNCHANGED db

\* validationResult(req) and the check of req.file
CreatePostValidate(r) ==
    /\ At(r, "createPost", "validate")
    /\ IF CaptionValid(req[r].arg.caption) /\ req[r].arg.file
       THEN Goto(r, "upload") ELSE Respond(r, 400)
    /\ UNCHANGED db

\* await uploadToCloudinary(...) resolves
CreatePostUpload(r) ==
    /\ At(r, "createPost", "upload")
    /\ Goto(r, "insert")
    /\ UNCHANGED db

\* await uploadToCloudinary(...) rejects: the catch block answers 500
UploadFails(r) ==
    /\ At(r, "createPost", "upload")
    /\ Goto(r, "catch")
    /\ UNCHANGED db

\* INSERT INTO posts (user_id, caption, image_url) VALUES ($1, caption || '', $3)
CreatePostInsert(r) ==
    /\ At(r, "createPost", "insert")
    /\ postSeq < MaxPosts
    /\ postSeq' = postSeq + 1
    /\ posts' = [q \in DOMAIN posts \cup {postSeq + 1} |->
                   IF q = postSeq + 1
                   THEN [user_id |-> req[r].userId,
                         caption |-> IF req[r].arg.caption = Undefined
                                     THEN "" ELSE req[r].arg.caption,
                         image_url |-> "url", group_id |-> Null,
                         likes_count |-> 0, comments_count |-> 0]
                   ELSE posts[q]]
    /\ Respond(r, 201)
    /\ UNCHANGED <<likes, comments, commentSeq, dbGroups, followers>>

---------------------------------------------------------------------------
(* POST /api/users/:username/follow, DELETE /api/users/:username/follow *)

\* the usernames a request can name: those of the registered users (written as
\* their ids) and one that nobody has
Usernames == Users \cup {Null}

\* SELECT id FROM users WHERE username = $1 AND is_active = true finds a row
UserFound(name) == name \in DOMAIN users /\ users[name].is_active

\* the row (follower_id, following_id) that the request is about
Edge(r) == <<req[r].userId, req[r].arg>>

StartFollow(r) ==
    /\ CanStart(r)
    /\ \E u \in Users, name \in Usernames :
          Step(r, NewReq("follow", u, 0, 0, name, "selUser"))
    /\ UNCHANGED db

\* mutation: the handler does not compare followerId with followingId
FollowSelectUserNoSelfCheck(r) ==
    /\ At(r, "follow", "selUser")
    /\ IF ~UserFound(req[r].arg) THEN Respond(r, 404) ELSE Goto(r, "selFollow")
    /\ UNCHANGED db

\* the user lookup returns: 404 without a row, 400 'Cannot follow yourself'
FollowSelectUser(r) ==
    /\ At(r, "follow", "selUser")
    /\ IF ~UserFound(req[r].arg) THEN Respond(r, 404)
       ELSE IF req[r].userId = req[r].arg THEN Respond(r, 400)
       ELSE Goto(r, "selFollow")
    /\ UNCHANGED db

\* SELECT id FROM followers WHERE follower_id = $1 AND following_id = $2:
\* 409 'Already following this user' when it returns a row
FollowSelectFollow(r) ==
    /\ At(r, "follow", "selFollow")
    /\ IF BagIn(Edge(r), followers) THEN Respond(r, 409) ELSE Goto(r, "insert")
    /\ UNCHANGED db

\* INSERT INTO followers (follower_id, following_id), its own transaction:
\* UNIQUE(follower_id, following_id) rejects a second row of the pair
FollowInsert(r) ==
    /\ At(r, "follow", "insert")
    /\ IF BagIn(Edge(r), followers)
         THEN followers' = followers /\ Goto(r, "catch")
         ELSE followers' = followers (+) SetToBag({Edge(r)}) /\ Respond(r, 200)
    /\ UNCHANGED <<dbPosts, dbGroups>>

FollowStep(r) ==
    StartFollow(r) \/ FollowSelectUser(r) \/ FollowSelectFollow(r) \/ FollowInsert(r)

StartUnfollow(r) ==
    /\ CanStart(r)
    /\ \E u \in Users, name \in Usernames :
          Step(r, NewReq("unfollow", u, 0, 0, name, "selUser"))
    /\ UNCHANGED db

UnfollowSelectUser(r) ==
    /\ At(r, "unfollow", "selUser")
    /\ IF UserFound(req[r].arg) THEN Goto(r, "delete") ELSE Respond(r, 404)
    /\ UNCHANGED db

\* DELETE FROM followers WHERE follower_id = $1 AND following_id = $2 removes
\* every row of the pair; 404 'Not following this user' when rowCount is 0
UnfollowDelete(r) ==
    /\ At(r, "unfollow", "delete")
    /\ followers' = [e \in DOMAIN followers \ {Edge(r)} |-> followers[e]]
    /\ Respond(r, IF BagIn(Edge(r), followers) THEN 200 ELSE 404)
    /\ UNCHANGED <<dbPosts, dbGroups>>

UnfollowStep(r) == StartUnfollow(r) \/ UnfollowSelectUser(r) \/ UnfollowDelete(r)

---------------------------------------------------------------------------
(* GET /api/posts/feed/timeline *)

MaxPage == 2         \* largest page a request asks for
MaxLimit == 2        \* largest limit a request sets itself

\* const { page = 1, limit = 20 } = req.query: neither is validated
DefaultLimit == 20
Pages == 0..MaxPage
Limits == (1..MaxLimit) \cup {DefaultLimit}

\* posts.created_at (DEFAULT CURRENT_TIMESTAMP, never updated): rows are inserted
\* one at a time, so the order of the timestamps is the order of the ids
CreatedAt(p) == p

\* mutation: the subquery without the followers
FollowingNobody(u) == {u}

\* SELECT following_id FROM followers WHERE follower_id = $1 UNION SELECT $1
Following(u) == {e[2] : e \in {x \in DOMAIN followers : x[1] = u}} \cup {u}

\* FROM posts p JOIN users u ON p.user_id = u.id WHERE p.user_id IN (...)
FeedPosts(u) ==
    {p \in DOMAIN posts : posts[p].user_id \in DOMAIN users
                            /\ posts[p].user_id \in Following(u)}

\* ORDER BY p.created_at DESC
RECURSIVE OrderByCreatedAtDesc(_)
OrderByCreatedAtDesc(S) ==
    IF S = {} THEN << >>
    ELSE LET first == CHOOSE p \in S : \A q \in S : CreatedAt(q) <= CreatedAt(p)
         IN  <<first>> \o OrderByCreatedAtDesc(S \ {first})

\* LIMIT $2 OFFSET $3
LimitOffset(rows, limit, offset) ==
    SubSeq(rows, offset + 1, IF offset + limit < Len(rows) THEN offset + limit ELSE Len(rows))

\* the rows.map of the handler: likesCount is the stored likes_count, isLiked
\* the EXISTS(SELECT 1 FROM likes WHERE post_id = p.id AND user_id = $1)
FeedRow(u, p) ==
    [id |-> p, userId |-> posts[p].user_id, likesCount |-> posts[p].likes_count,
     isLiked |-> <<u, p>> \in likes]

\* const offset = (page - 1) * limit
Offset(page, limit) == (page - 1) * limit

StartFeed(r) ==
    /\ CanStart(r)
    /\ \E u \in Users, page \in Pages, limit \in Limits :
          Step(r, NewReq("feed", u, 0, 0, [page |-> page, limit |-> limit], "select"))
    /\ UNCHANGED db

\* the one query of the handler and its answer; the store rejects a negative
\* OFFSET, which the catch block answers
FeedSelect(r) ==
    /\ At(r, "feed", "select")
    /\ LET u == req[r].userId
           limit == req[r].arg.limit
           offset == Offset(req[r].arg.page, limit)
           rows == LimitOffset(OrderByCreatedAtDesc(FeedPosts(u)), limit, offset)
       IN  IF offset < 0
             THEN Goto(r, "catch")
             ELSE Step(r, [req[r] EXCEPT !.pc = "done", !.resp = 200,
                             !.feed = [i \in 1..Len(rows) |-> FeedRow(u, rows[i])]])
    /\ UNCHANGED db

FeedStep(r) == StartFeed(r) \/ FeedSelect(r)

---------------------------------------------------------------------------
(* PUT /api/posts/:postId *)

StartUpdateCaption(r, captions) ==
    /\ CanStart(r)
    /\ \E u \in Users, p \in PostIds, c \in captions :
          Step(r, NewReq("updateCaption", u, p, 0, c, "validate"))
    /\ UNCHANGED db

UpdateCaptionValidate(r) ==
    /\ At(r, "updateCaption", "validate")
    /\ IF CaptionValid(req[r].arg) THEN Goto(r, "select") ELSE Respond(r, 400)
    /\ UNCHANGED db

\* the check without the comparison of user_id
OwnerCheckNoOwner(r) == IF req[r].postId \notin DOMAIN posts THEN "r404" ELSE "write"

\* where the handler goes after SELECT user_id FROM posts WHERE id = $1
OwnerCheck(r) ==
    IF req[r].postId \notin DOMAIN posts THEN "r404"
    ELSE IF posts[req[r].postId].user_id # req[r].userId THEN "r403"
    ELSE "write"

UpdateCaptionSelect(r) ==
    /\ At(r, "updateCaption", "select")
    /\ CASE OwnerCheck(r) = "r404" -> Respond(r, 404)
         [] OwnerCheck(r) = "r403" -> Respond(r, 403)
         [] OTHER -> Goto(r, "update")
    /\ UNCHANGED db

\* UPDATE posts SET caption = $1, updated_at = ... WHERE id = $2 (an absent
\* caption is sent as NULL); result.rows[0] of a post deleted meanwhile is
\* undefined and reading post.id throws
UpdateCaptionUpdate(r) ==
    /\ At(r, "updateCaption", "update")
    /\ ~PostRowBusy(r, req[r].postId)
    /\ IF req[r].postId \in DOMAIN posts
       THEN /\ posts' = [posts EXCEPT ![req[r].postId].caption =
                           IF req[r].arg = Undefined THEN "NULL" ELSE req[r].arg]
            /\ Respond(r, 200)
       ELSE /\ posts' = posts
            /\ Goto(r, "catch")
    /\ UNCHANGED <<postSeq, likes, comments, commentSeq, dbGroups, followers>>

---------------------------------------------------------------------------
(* DELETE /api/posts/:postId *)

StartDeletePost(r) ==
    /\ CanStart(r)
    /\ \E u \in Users, p \in PostIds :
          Step(r, NewReq("deletePost", u, p, 0, 0, "select"))
    /\ UNCHANGED db

DeletePostSelect(r) ==
    /\ At(r, "deletePost", "select")
    /\ CASE OwnerCheck(r) = "r404" -> Respond(r, 404)
         [] OwnerCheck(r) = "r403" -> Respond(r, 403)
         [] OTHER -> Goto(r, "delete")
    /\ UNCHANGED db

\* await pool.query('DELETE FROM posts WHERE id = $1'): commits on its own
DeletePostDelete(r) ==
    /\ At(r, "deletePost", "delete")
    /\ ~PostDeleteBlocked(r, req[r].postId)
    /\ CascadeDeletePost(req[r].postId)
    /\ Goto(r, "media")
    /\ UNCHANGED <<postSeq, commentSeq, dbGroups, followers>>

\* extractPublicId / deleteFromCloudinary inside their own try-catch: whether
\* they throw or not, the handler goes on to res.json
DeletePostMedia(r) ==
    /\ At(r, "deletePost", "media")
    /\ Respond(r, 200)
    /\ UNCHANGED db

\* deleteFromCloudinary throws after logging its error: the inner catch logs
\* the message and the handler goes on to res.json
DeletePostMediaFails(r) ==
    /\ At(r, "deletePost", "media")
    /\ Step(r, [Idle EXCEPT !.op = req[r].op, !.pc = "done", !.resp = 200,
                            !.logged = "media"])
    /\ UNCHANGED db

---------------------------------------------------------------------------
(* GET /api/posts/:postId *)

StartGetPost(r) ==
    /\ CanStart(r)
    /\ \E p \in PostIds : Step(r, NewReq("getPost", 0, p, 0, 0, "select"))
    /\ UNCHANGED db

\* SELECT p.*, ... FROM posts p JOIN users u ... WHERE p.id = $1; 404 without a row
GetPostSelect(r) ==
    /\ At(r, "getPost", "select")
    /\ IF req[r].postId \in DOMAIN posts THEN Respond(r, 200) ELSE Respond(r, 404)
    /\ UNCHANGED db

---------------------------------------------------------------------------
(* POST /api/groups *)

\* arg.valid: createGroupValidation passes (a name of 1..150 characters);
\* arg.isPrivate: !!req.body.isPrivate
StartCreateGroup(r) ==
    /\ CanStart(r)
    /\ \E u \in Users, valid \in BOOLEAN, priv \in BOOLEAN :
          Step(r, NewGroupReq("createGroup", u, 0, 0,
                              [valid |-> valid, isPrivate |-> priv], "validate"))
    /\ UNCHANGED db

\* validationResult(req), then const client = await pool.connect()
CreateGroupValidate(r) ==
    /\ At(r, "createGroup", "validate")
    /\ IF req[r].arg.valid
       THEN Step(r, [req[r] EXCEPT !.pc = "begin", !.client = TRUE])
       ELSE Respond(r, 400)
    /\ UNCHANGED db

\* INSERT INTO groups ... RETURNING id: the id comes from the sequence
CreateGroupInsertGroup(r) ==
    /\ At(r, "createGroup", "insGroup")
    /\ groupSeq < MaxGroups
    /\ groupSeq' = groupSeq + 1
    /\ Step(r, [req[r] EXCEPT !.pc = "insMember", !.groupId = groupSeq + 1])
    /\ UNCHANGED <<dbPosts, groups, members, followers>>

\* INSERT INTO group_members (group_id, user_id, role) VALUES (group.id, ownerId, 'admin')
CreateGroupInsertMember(r) ==
    /\ At(r, "createGroup", "insMember")
    /\ Step(r, [req[r] EXCEPT !.pc = "update", !.rows = 1])
    /\ UNCHANGED db

\* UPDATE groups SET members_count = members_count + 1 WHERE id = group.id
CreateGroupUpdate(r) ==
    /\ At(r, "createGroup", "update")
    /\ Step(r, [req[r] EXCEPT !.pc = "commit", !.hit = TRUE])
    /\ UNCHANGED db

\* the members_count of a new groups row (the column's default)
MembersCountDefault == 0

CreateGroupCommit(r) ==
    /\ At(r, "createGroup", "commit")
    /\ groups' = [g \in DOMAIN groups \cup {req[r].groupId} |->
                    IF g = req[r].groupId
                    THEN [is_private |-> req[r].arg.isPrivate,
                          owner_id |-> req[r].userId,
                          members_count |-> MembersCountDefault + 1]
                    ELSE groups[g]]
    /\ members' = members \cup {[group_id |-> req[r].groupId,
                                 user_id |-> req[r].userId, role |-> "admin"]}
    /\ Respond(r, 201)
    /\ UNCHANGED <<dbPosts, groupSeq, followers>>

---------------------------------------------------------------------------
(* PUT /api/groups/:groupId *)

\* arg.given: typeof req.body.isPrivate === 'boolean'; arg.isPrivate: its value
StartUpdateGroup(r) ==
    /\ CanStart(r)
    /\ \E u \in Users, g \in GroupIds, given \in BOOLEAN, priv \in BOOLEAN :
          /\ (~given => ~priv)
          /\ Step(r, NewGroupReq("updateGroup", u, g, 0,
                                 [given |-> given, isPrivate |-> priv], "select"))
    /\ UNCHANGED db

\* mutation: updateGroup without the admin query
UpdateGroupSelectNoAdmin(r) ==
    /\ At(r, "updateGroup", "select")
    /\ Goto(r, "update")
    /\ UNCHANGED db

\* SELECT role FROM group_members WHERE group_id = $1 AND user_id = $2; 403
\* unless the row exists with role admin
UpdateGroupSelect(r) ==
    /\ At(r, "updateGroup", "select")
    /\ IF IsAdmin(req[r].groupId, req[r].userId) THEN Goto(r, "update") ELSE Respond(r, 403)
    /\ UNCHANGED db

\* UPDATE groups SET ..., is_private = COALESCE($3, is_private) WHERE id = $4;
\* no row returned -> 404
UpdateGroupUpdate(r) ==
    /\ At(r, "updateGroup", "update")
    /\ ~GroupRowBusy(r, req[r].groupId)
    /\ IF req[r].groupId \in DOMAIN groups
       THEN /\ groups' = [groups EXCEPT ![req[r].groupId].is_private =
                            IF req[r].arg.given THEN req[r].arg.isPrivate ELSE @]
            /\ Respond(r, 200)
       ELSE /\ groups' = groups
            /\ Respond(r, 404)
    /\ UNCHANGED <<dbPosts, groupSeq, members, followers>>

---------------------------------------------------------------------------
(* DELETE /api/groups/:groupId *)

StartDeleteGroup(r) ==
    /\ CanStart(r)
    /\ \E u \in Users, g \in GroupIds :
          Step(r, NewGroupReq("deleteGroup", u, g, 0, 0, "select"))
    /\ UNCHANGED db

DeleteGroupSelect(r) ==
    /\ At(r, "deleteGroup", "select")
    /\ IF IsAdmin(req[r].groupId, req[r].userId) THEN Goto(r, "begin") ELSE Respond(r, 403)
    /\ UNCHANGED db

\* DELETE FROM groups WHERE id = $1; rowCount === 0 -> ROLLBACK, 404
DeleteGroupDelete(r) ==
    /\ At(r, "deleteGroup", "delete")
    /\ ~GroupDeleteBlocked(r, req[r].groupId)
    /\ Goto(r, IF req[r].groupId \in DOMAIN groups THEN "commit" ELSE "rb404")
    /\ UNCHANGED db

\* COMMIT: the row and, by ON DELETE CASCADE, its group_members rows and its
\* posts (with their likes and comments) are gone
DeleteGroupCommit(r) ==
    /\ At(r, "deleteGroup", "commit")
    /\ groups' = [g \in DOMAIN groups \ {req[r].groupId} |-> groups[g]]
    /\ members' = {m \in members : m.group_id # req[r].groupId}
    /\ LET gone == PostsOfGroup(req[r].groupId)
       IN  /\ posts' = [q \in DOMAIN posts \ gone |-> posts[q]]
           /\ likes' = {l \in likes : l[2] \notin gone}
           /\ comments' = [c \in {d \in DOMAIN comments : comments[d].post_id \notin gone}
                            |-> comments[c]]
    /\ Respond(r, 200)
    /\ UNCHANGED <<postSeq, commentSeq, groupSeq, followers>>

---------------------------------------------------------------------------
(* POST /api/groups/:groupId/join and POST /api/groups/:groupId/members *)

StartJoinGroup(r) ==
    /\ CanStart(r)
    /\ \E u \in Users, g \in GroupIds :
          Step(r, NewGroupReq("joinGroup", u, g, u, 0, "select"))
    /\ UNCHANGED db

\* SELECT is_private FROM groups WHERE id = $1, before BEGIN
JoinGroupSelect(r) ==
    /\ At(r, "joinGroup", "select")
    /\ IF req[r].groupId \notin DOMAIN groups THEN Respond(r, 404)
       ELSE IF groups[req[r].groupId].is_private THEN Respond(r, 403)
       ELSE Goto(r, "begin")
    /\ UNCHANGED db

\* memberId: req.body.userId, 0 when it is absent
StartAddMember(r) ==
    /\ CanStart(r)
    /\ \E u \in Users, g \in GroupIds, m \in Users \cup {0} :
          Step(r, NewGroupReq("addMember", u, g, m, 0, "select"))
    /\ UNCHANGED db

\* if (!newUserId) -> 400; then the admin check, before BEGIN
AddMemberSelect(r) ==
    /\ At(r, "addMember", "select")
    /\ IF req[r].memberId = 0 THEN Respond(r, 400)
       ELSE IF IsAdmin(req[r].groupId, req[r].userId) THEN Goto(r, "begin")
       ELSE Respond(r, 403)
    /\ UNCHANGED db

\* the insert taken to have added a row whether or not the key was there
MemberInsertNoConflict(r) ==
    /\ req[r].op \in {"joinGroup", "addMember"} /\ req[r].pc = "insert"
    /\ ~MemberKeyBusy(r, req[r].groupId, req[r].memberId)
    /\ Step(r, IF req[r].groupId \notin DOMAIN groups
               THEN [req[r] EXCEPT !.pc = "catch"]
               ELSE [req[r] EXCEPT !.pc = "update", !.rows = 1])
    /\ UNCHANGED db

\* INSERT INTO group_members (group_id, user_id, role) VALUES ($1, $2, 'member')
\* ON CONFLICT DO NOTHING: waits for an open transaction that wrote the same key
\* or is deleting the group; an existing row gives rowCount 0, a missing group
\* fails the foreign key
MemberInsert(r) ==
    /\ req[r].op \in {"joinGroup", "addMember"} /\ req[r].pc = "insert"
    /\ ~MemberKeyBusy(r, req[r].groupId, req[r].memberId)
    /\ Step(r, IF MemberRows(req[r].groupId, req[r].memberId) # {}
               THEN [req[r] EXCEPT !.pc = "commit", !.rows = 0]
               ELSE IF req[r].groupId \notin DOMAIN groups
               THEN [req[r] EXCEPT !.pc = "catch"]
               ELSE [req[r] EXCEPT !.pc = "update", !.rows = 1])
    /\ UNCHANGED db

\* if (insertRes.rowCount > 0) UPDATE groups SET members_count = members_count + 1
MemberInsertUpdate(r) ==
    /\ req[r].op \in {"joinGroup", "addMember"} /\ req[r].pc = "update"
    /\ ~GroupRowBusy(r, req[r].groupId)
    /\ Step(r, [req[r] EXCEPT !.pc = "commit", !.hit = req[r].groupId \in DOMAIN groups])
    /\ UNCHANGED db

MemberInsertCommit(r) ==
    /\ req[r].op \in {"joinGroup", "addMember"} /\ req[r].pc = "commit"
    /\ members' = IF req[r].rows = 1
                  THEN members \cup {[group_id |-> req[r].groupId,
                                      user_id |-> req[r].memberId, role |-> "member"]}
                  ELSE members
    /\ groups' = IF req[r].hit
                 THEN [groups EXCEPT ![req[r].groupId].members_count = @ + 1]
                 ELSE groups
    /\ Respond(r, IF req[r].op = "joinGroup" THEN 200 ELSE 201)
    /\ UNCHANGED <<dbPosts, groupSeq, followers>>

---------------------------------------------------------------------------
(* DELETE /api/groups/:groupId/members/:memberId *)

StartRemoveMember(r) ==
    /\ CanStart(r)
    /\ \E u \in Users, g \in GroupIds, m \in Users :
          Step(r, NewGroupReq("removeMember", u, g, m, 0, "select"))
    /\ UNCHANGED db

\* mutation: removeMember without the test of the requester
RemoveMemberSelectNoCheck(r) ==
    /\ At(r, "removeMember", "select")
    /\ Goto(r, "begin")
    /\ UNCHANGED db

\* if (!isAdmin && parseInt(memberId, 10) !== userId) -> 403
RemoveMemberSelect(r) ==
    /\ At(r, "removeMember", "select")
    /\ IF ~IsAdmin(req[r].groupId, req[r].userId) /\ req[r].memberId # req[r].userId
       THEN Respond(r, 403) ELSE Goto(r, "begin")
    /\ UNCHANGED db

\* the delete with its rowCount ignored
RemoveMemberDeleteNoRowCount(r) ==
    /\ At(r, "removeMember", "delete")
    /\ Goto(r, "update")
    /\ UNCHANGED db

\* DELETE FROM group_members WHERE group_id = $1 AND user_id = $2; rowCount === 0 -> 404
RemoveMemberDelete(r) ==
    /\ At(r, "removeMember", "delete")
    /\ ~\E s \in Slots \ {r} :
          \/ DeletesMember(s) /\ req[s].groupId = req[r].groupId
                              /\ req[s].memberId = req[r].memberId
          \/ DeletesGroup(s, req[r].groupId)
    /\ Goto(r, IF MemberRows(req[r].groupId, req[r].memberId) # {} THEN "update" ELSE "rb404")
    /\ UNCHANGED db

\* UPDATE groups SET members_count = GREATEST(members_count - 1, 0) WHERE id = $1
RemoveMemberUpdate(r) ==
    /\ At(r, "removeMember", "update")
    /\ ~GroupRowBusy(r, req[r].groupId)
    /\ Step(r, [req[r] EXCEPT !.pc = "commit", !.hit = req[r].groupId \in DOMAIN groups])
    /\ UNCHANGED db

RemoveMemberCommit(r) ==
    /\ At(r, "removeMember", "commit")
    /\ members' = members \ MemberRows(req[r].groupId, req[r].memberId)
    /\ groups' = IF req[r].hit
                 THEN [groups EXCEPT ![req[r].groupId].members_count = Floor0(@ - 1)]
                 ELSE groups
    /\ Respond(r, 200)
    /\ UNCHANGED <<dbPosts, groupSeq, followers>>

---------------------------------------------------------------------------
(* POST /api/groups/:groupId/posts *)

\* arg: req.file is present
StartCreateGroupPost(r) ==
    /\ CanStart(r)
    /\ \E u \in Users, g \in GroupIds, f \in BOOLEAN :
          Step(r, NewGroupReq("createGroupPost", u, g, 0, f, "select"))
    /\ UNCHANGED db

\* mutation: createGroupPost without the membership query
CreateGroupPostSelectNoMember(r) ==
    /\ At(r, "createGroupPost", "select")
    /\ Goto(r, IF req[r].arg THEN "upload" ELSE "insert")
    /\ UNCHANGED db

\* SELECT id FROM group_members WHERE group_id = $1 AND user_id = $2; 403 without
\* a row; then the upload when there is a file
CreateGroupPostSelect(r) ==
    /\ At(r, "createGroupPost", "select")
    /\ IF MemberRows(req[r].groupId, req[r].userId) = {}
       THEN Respond(r, 403)
       ELSE Goto(r, IF req[r].arg THEN "upload" ELSE "insert")
    /\ UNCHANGED db

\* await uploadToCloudinary(...) resolves
CreateGroupPostUpload(r) ==
    /\ At(r, "createGroupPost", "upload")
    /\ Goto(r, "insert")
    /\ UNCHANGED db

\* await uploadToCloudinary(...) rejects: the inner catch answers 500
CreateGroupPostUploadFails(r) ==
    /\ At(r, "createGroupPost", "upload")
    /\ Respond(r, 500)
    /\ UNCHANGED db

\* INSERT INTO posts (user_id, caption, image_url, group_id): rejected when the
\* group is gone (group_id REFERENCES groups), waits for a DELETE of the group
\* that has not committed
CreateGroupPostInsert(r) ==
    /\ At(r, "createGroupPost", "insert")
    /\ ~\E s \in Slots \ {r} : DeletesGroup(s, req[r].groupId)
    /\ IF req[r].groupId \notin DOMAIN groups
       THEN Goto(r, "catch") /\ UNCHANGED db
       ELSE /\ postSeq < MaxPosts
            /\ postSeq' = postSeq + 1
            /\ posts' = [q \in DOMAIN posts \cup {postSeq + 1} |->
                           IF q = postSeq + 1
                           THEN [user_id |-> req[r].userId, caption |-> "",
                                 image_url |-> IF req[r].arg THEN "url" ELSE NoUrl,
                                 group_id |-> req[r].groupId,
                                 likes_count |-> 0, comments_count |-> 0]
                           ELSE posts[q]]
            /\ Respond(r, 201)
            /\ UNCHANGED <<likes, comments, commentSeq, dbGroups, followers>>

---------------------------------------------------------------------------
(* DELETE /api/groups/:groupId/posts/:postId *)

StartDeleteGroupPost(r) ==
    /\ CanStart(r)
    /\ \E u \in Users, g \in GroupIds, p \in PostIds :
          Step(r, [NewGroupReq("deleteGroupPost", u, g, 0, 0, "select")
                     EXCEPT !.postId = p])
    /\ UNCHANGED db

\* SELECT * FROM posts WHERE id = $1 AND group_id = $2; 404 without a row; the
\* author goes on to the DELETE, anyone else to the admin query; arg keeps
\* post.image_url
DeleteGroupPostSelect(r) ==
    /\ At(r, "deleteGroupPost", "select")
    /\ IF req[r].postId \notin PostsOfGroup(req[r].groupId)
       THEN Respond(r, 404)
       ELSE Step(r, [req[r] EXCEPT
                       !.pc = IF posts[req[r].postId].user_id # req[r].userId
                              THEN "selAdmin" ELSE "delete",
                       !.arg = posts[req[r].postId].image_url])
    /\ UNCHANGED db

\* SELECT role FROM group_members ...; 403 unless the role is admin
DeleteGroupPostAdmin(r) ==
    /\ At(r, "deleteGroupPost", "selAdmin")
    /\ IF IsAdmin(req[r].groupId, req[r].userId) THEN Goto(r, "delete") ELSE Respond(r, 403)
    /\ UNCHANGED db

\* await client.query('DELETE FROM posts WHERE id = $1') outside a transaction;
\* without an image the handler answers at once
DeleteGroupPostDelete(r) ==
    /\ At(r, "deleteGroupPost", "delete")
    /\ ~PostDeleteBlocked(r, req[r].postId)
    /\ CascadeDeletePost(req[r].postId)
    /\ IF req[r].arg = NoUrl THEN Respond(r, 200) ELSE Goto(r, "media")
    /\ UNCHANGED <<postSeq, commentSeq, dbGroups, followers>>

\* extractPublicId and deleteFromCloudinary return
DeleteGroupPostMedia(r) ==
    /\ At(r, "deleteGroupPost", "media")
    /\ Respond(r, 200)
    /\ UNCHANGED db

\* mutation: the error of the media call reaches the outer catch
DeleteGroupPostMediaSurfaces(r) ==
    /\ At(r, "deleteGroupPost", "media")
    /\ Respond(r, 500)
    /\ UNCHANGED db

\* deleteFromCloudinary throws after logging its error: the inner catch
\* ignores it
DeleteGroupPostMediaFails(r) ==
    /\ At(r, "deleteGroupPost", "media")
    /\ Step(r, [Idle EXCEPT !.op = req[r].op, !.pc = "done", !.resp = 200,
                            !.logged = "media"])
    /\ UNCHANGED db

---------------------------------------------------------------------------
(* authenticateToken and the routes behind it *)

ProtectedRoutes == {"logout", "logout-all"}

StartProtected(route, header) ==
    /\ AFree
    /\ areq' = [AIdle EXCEPT !.op = route, !.pc = "authenticate", !.header = header]
    /\ UNCHANGED <<db, req, env, timer, users, refresh_tokens, now, used>>

\* authenticateToken up to its query
AuthenticateToken ==
    /\ areq.pc = "authenticate"
    /\ IF ~HasToken(areq.header)
         THEN ARespond(401, "Access token required")
         ELSE IF ~verifyToken(areq.header.token, "access")
                THEN ARespond(403, "Invalid or expired token")
                ELSE areq' = [areq EXCEPT !.pc = "lookup", !.user = areq.header.token.userId]
    /\ UNCHANGED <<db, req, env, timer, users, refresh_tokens, now, used>>

\* mutation: the middleware does not look at is_active
AuthLookupNoActiveCheck ==
    /\ areq.pc = "lookup"
    /\ IF areq.user \notin DOMAIN users
         THEN ARespond(403, "User not found")
         ELSE areq' = [areq EXCEPT !.pc = "handler", !.nexts = @ + 1]
    /\ UNCHANGED <<db, req, env, timer, users, refresh_tokens, now, used>>

\* the query of authenticateToken returns: req.user is set and next() is called
\* when the row exists and is active
AuthLookup ==
    /\ areq.pc = "lookup"
    /\ IF areq.user \notin DOMAIN users
         THEN ARespond(403, "User not found")
         ELSE IF ~users[areq.user].is_active
                THEN ARespond(403, "Account is deactivated")
                ELSE areq' = [areq EXCEPT !.pc = "handler", !.nexts = @ + 1]
    /\ UNCHANGED <<db, req, env, timer, users, refresh_tokens, now, used>>

\* the query of authenticateToken rejects: the catch block answers
AuthLookupFails ==
    /\ areq.pc = "lookup"
    /\ ARespond(500, "Internal server error")
    /\ UNCHANGED <<db, req, env, timer, users, refresh_tokens, now, used>>

\* a request to a route behind optionalAuth
StartOptional(header) ==
    /\ AFree
    /\ areq' = [AIdle EXCEPT !.op = "optional", !.pc = "authenticate", !.header = header]
    /\ UNCHANGED <<db, req, env, timer, users, refresh_tokens, now, used>>

\* optionalAuth up to its query: without a token, or with one that verifyToken
\* turns into null, next() is called with req.user unset
OptionalAuth ==
    /\ areq.op = "optional" /\ areq.pc = "authenticate"
    /\ IF HasToken(areq.header) /\ verifyToken(areq.header.token, "access")
         THEN areq' = [areq EXCEPT !.pc = "lookup", !.token = areq.header.token]
         ELSE areq' = [areq EXCEPT !.pc = "handler", !.nexts = @ + 1]
    /\ UNCHANGED <<db, req, env, timer, users, refresh_tokens, now, used>>

\* mutation: optionalAuth does not look at is_active
OptionalLookupNoActiveCheck ==
    /\ areq.op = "optional" /\ areq.pc = "lookup"
    /\ areq' = [areq EXCEPT !.pc = "handler", !.nexts = @ + 1,
                            !.user = IF areq.token.userId \in DOMAIN users
                                       THEN areq.token.userId ELSE 0]
    /\ UNCHANGED <<db, req, env, timer, users, refresh_tokens, now, used>>

\* the query of optionalAuth returns: req.user is the row when there is one and
\* it is active; next() is called either way
OptionalLookup ==
    /\ areq.op = "optional" /\ areq.pc = "lookup"
    /\ areq' = [areq EXCEPT !.pc = "handler", !.nexts = @ + 1,
                            !.user = IF /\ areq.token.userId \in DOMAIN users
                                          /\ users[areq.token.userId].is_active
                                       THEN areq.token.userId ELSE 0]
    /\ UNCHANGED <<db, req, env, timer, users, refresh_tokens, now, used>>

\* the query of optionalAuth rejects: the catch block logs and calls next()
OptionalLookupFails ==
    /\ areq.op = "optional" /\ areq.pc = "lookup"
    /\ areq' = [areq EXCEPT !.pc = "handler", !.nexts = @ + 1,
                            !.logged = "Optional auth error"]
    /\ UNCHANGED <<db, req, env, timer, users, refresh_tokens, now, used>>

\* the route behind optionalAuth has run (what it answers is not modelled)
OptionalRouteDone ==
    /\ areq.op = "optional" /\ areq.pc = "handler"
    /\ areq' = [areq EXCEPT !.pc = "done"]
    /\ UNCHANGED <<db, req, env, timer, users, refresh_tokens, now, used>>

\* POST /api/auth/logout: revoke(refreshToken) of the body
Logout ==
    /\ areq.op = "logout" /\ areq.pc = "handler"
    /\ \E tok \in RefreshTokenInputs :
           refresh_tokens' = {t \in refresh_tokens : t.token # tok}
    /\ ARespond(200, "")
    /\ UNCHANGED <<db, req, env, timer, users, now, used>>

\* POST /api/auth/logout-all: revokeAll(req.user.id)
LogoutAll ==
    /\ areq.op = "logout-all" /\ areq.pc = "handler"
    /\ refresh_tokens' = {t \in refresh_tokens : t.user_id # areq.user}
    /\ ARespond(200, "")
    /\ UNCHANGED <<db, req, env, timer, users, now, used>>

---------------------------------------------------------------------------
(* POST /api/auth/login and POST /api/auth/refresh *)

\* the password is right: issueTokenPair(userId)
Login(u) ==
    /\ AFree
    /\ u \in DOMAIN users
    /\ LET tokens == generateTokens(u)
       IN  IF StoreRejected(refresh_tokens, u, tokens.refreshToken)
             THEN /\ areq' = [AIdle EXCEPT !.op = "login", !.pc = "done", !.resp = 500,
                                           !.message = "InternalFailure"]
                  /\ UNCHANGED refresh_tokens
             ELSE /\ areq' = [AIdle EXCEPT !.op = "login", !.pc = "done", !.resp = 200]
                  /\ refresh_tokens' = storeRefreshToken(refresh_tokens, u, tokens.refreshToken)
    /\ UNCHANGED <<db, req, env, timer, users, now, used>>

StartRefresh(tok) ==
    /\ AFree
    /\ areq' = [AIdle EXCEPT !.op = "refresh", !.pc = "refresh", !.token = tok]
    /\ UNCHANGED <<db, req, env, timer, users, refresh_tokens, now, used>>

\* refresh accepts the string: it verifies under the refresh secret and a row
\* that has not expired holds it
RefreshAccepts(tok) ==
    /\ verifyToken(tok, "refresh")
    /\ \E t \in refresh_tokens : t.token = tok /\ t.expires_at > now

\* refresh(refreshTokenString): the row of the presented string is replaced by
\* the row of the new refresh token
Refresh ==
    /\ areq.op = "refresh" /\ areq.pc = "refresh"
    /\ IF ~RefreshAccepts(areq.token)
         THEN /\ ARespond(401, "InvalidToken")
              /\ UNCHANGED <<refresh_tokens, used>>
         ELSE LET tokens == generateTokens(areq.token.userId)
                  rest == {t \in refresh_tokens : t.token # areq.token}
              IN  /\ used' = used \cup {areq.token}
                  /\ IF StoreRejected(rest, areq.token.userId, tokens.refreshToken)
                       THEN /\ refresh_tokens' = rest
                            /\ ARespond(500, "InternalFailure")
                       ELSE /\ refresh_tokens' =
                                   storeRefreshToken(rest, areq.token.userId, tokens.refreshToken)
                            /\ ARespond(200, "")
    /\ UNCHANGED <<db, req, env, timer, users, now>>

---------------------------------------------------------------------------
(* The clock, the sweep, and the rows of users changed in the database *)

Tick ==
    /\ now < MaxClock
    /\ now' = now + 1
    /\ UNCHANGED <<db, req, env, timer, users, refresh_tokens, used, areq>>

\* DELETE FROM refresh_tokens WHERE expires_at < NOW()
cleanExpiredTokens ==
    /\ refresh_tokens' = {t \in refresh_tokens : ~(t.expires_at < now)}
    /\ UNCHANGED <<db, req, env, timer, users, now, used, areq>>

\* the rows DELETE FROM refresh_tokens WHERE expires_at < NOW() removes
ExpiredRows == {t \in refresh_tokens : t.expires_at < now}

\* the timer is due and armed: setInterval calls cleanExpiredTokens and
\* re-arms itself for the next interval
TimerFires ==
    /\ timer.alive /\ now >= timer.due
    /\ timer' = [timer EXCEPT !.due = @ + SweepInterval]

\* a run of cleanExpiredTokens started by the timer: the DELETE succeeds
SweepRun ==
    /\ TimerFires
    /\ refresh_tokens' = refresh_tokens \ ExpiredRows
    /\ UNCHANGED <<db, req, env, users, now, used, areq>>

\* mutation: the rejected query leaves cleanExpiredTokens and ends the process
SweepFailsFatal ==
    /\ timer.alive /\ now >= timer.due
    /\ timer' = [timer EXCEPT !.alive = FALSE]
    /\ UNCHANGED <<db, req, env, users, refresh_tokens, now, used, areq>>

\* a run whose query rejects: the catch block logs the error and the promise
\* of cleanExpiredTokens resolves
SweepFails ==
    /\ TimerFires
    /\ UNCHANGED <<db, req, env, users, refresh_tokens, now, used, areq>>

\* is_active is set to false in the database (no route does it)
DeactivateUser(u) ==
    /\ u \in DOMAIN users /\ users[u].is_active
    /\ users' = [users EXCEPT ![u].is_active = FALSE]
    /\ UNCHANGED <<db, req, env, timer, refresh_tokens, now, used, areq>>

\* the row of users is deleted in the database (no route does it): its
\* refresh_tokens go with it (ON DELETE CASCADE)
DeleteUserRow(u) ==
    /\ u \in DOMAIN users
    /\ users' = [v \in DOMAIN users \ {u} |-> users[v]]
    /\ refresh_tokens' = {t \in refresh_tokens : t.user_id # u}
    /\ UNCHANGED <<db, req, env, timer, now, used, areq>>

---------------------------------------------------------------------------
(* Specifications *)

SharedStep(r) == Begin(r) \/ RollbackReturn(r) \/ QueryFails(r) \/ Catch(r)

CreatePostStep(r, captions) ==
    \/ StartCreatePost(r, captions) \/ CreatePostValidate(r) \/ CreatePostUpload(r)
    \/ UploadFails(r) \/ CreatePostInsert(r)

UpdateCaptionStep(r, captions) ==
    \/ StartUpdateCaption(r, captions) \/ UpdateCaptionValidate(r)
    \/ UpdateCaptionSelect(r) \/ UpdateCaptionUpdate(r)

DeletePostStep(r) ==
    \/ StartDeletePost(r) \/ DeletePostSelect(r) \/ DeletePostDelete(r)
    \/ DeletePostMedia(r) \/ DeletePostMediaFails(r)

GetPostStep(r) == StartGetPost(r) \/ GetPostSelect(r)

LikeStep(r) ==
    \/ StartLike(r) \/ LikeSelectPost(r) \/ LikeSelectLike(r) \/ LikeInsert(r)
    \/ LikeUpdate(r) \/ LikeCommit(r)
    \/ StartUnlike(r) \/ UnlikeDelete(r) \/ UnlikeUpdate(r) \/ UnlikeCommit(r)

AddLikeStep(r) ==
    \/ StartLike(r) \/ LikeSelectPost(r) \/ LikeSelectLike(r) \/ LikeInsert(r)
    \/ LikeUpdate(r) \/ LikeCommit(r)

AddCommentStep(r) ==
    \/ StartAddComment(r) \/ AddCommentValidate(r) \/ AddCommentSelectPost(r)
    \/ AddCommentInsert(r) \/ AddCommentUpdate(r) \/ AddCommentCommit(r)

DeleteCommentStep(r) ==
    \/ StartDeleteComment(r) \/ DeleteCommentSelect(r) \/ DeleteCommentDelete(r)
    \/ DeleteCommentUpdate(r) \/ DeleteCommentCommit(r)

CommentStep(r) == AddCommentStep(r) \/ DeleteCommentStep(r)

\* concurrent createPost, deletePost, like and unlike requests
LikesNext ==
    \E r \in Slots :
        CreatePostStep(r, {Undefined}) \/ DeletePostStep(r) \/ LikeStep(r) \/ SharedStep(r)

SpecLikes == Init /\ [][LikesNext]_vars

\* concurrent like requests after a createPost request, with a database that
\* rejects a query only for a constraint
LikeRaceNext ==
    \/ \E r \in {1} : CreatePostStep(r, {Undefined})
    \/ \E r \in Slots : AddLikeStep(r) \/ Begin(r) \/ RollbackReturn(r) \/ Catch(r)

SpecLikeRace == Init /\ [][LikeRaceNext]_vars

\* concurrent createPost, deletePost, addComment and deleteComment requests
CommentsNext ==
    \E r \in Slots :
        \/ CreatePostStep(r, {Undefined}) \/ DeletePostStep(r)
        \/ CommentStep(r) \/ SharedStep(r)

SpecComments == Init /\ [][CommentsNext]_vars

\* updateCaption, deletePost and deleteComment requests concurrent with each
\* other and with a createPost or addComment request (the requests that create
\* rows come one at a time)
PostsNext ==
    \/ \E r \in {1} : CreatePostStep(r, {Undefined}) \/ AddCommentStep(r)
    \/ \E r \in Slots :
        \/ UpdateCaptionStep(r, {"hello", "too long"}) \/ DeletePostStep(r)
        \/ DeleteCommentStep(r) \/ SharedStep(r)

SpecPosts == Init /\ [][PostsNext]_vars

\* deletePost and getPost requests concurrent with each other and with a
\* createPost, like or addComment request
CascadeNext ==
    \/ \E r \in {1} :
          CreatePostStep(r, {Undefined}) \/ AddLikeStep(r) \/ AddCommentStep(r)
    \/ \E r \in Slots : DeletePostStep(r) \/ GetPostStep(r) \/ SharedStep(r)

SpecCascade == Init /\ [][CascadeNext]_vars

CreateGroupStep(r) ==
    \/ StartCreateGroup(r) \/ CreateGroupValidate(r) \/ CreateGroupInsertGroup(r)
    \/ CreateGroupInsertMember(r) \/ CreateGroupUpdate(r) \/ CreateGroupCommit(r)

DeleteGroupStep(r) ==
    \/ StartDeleteGroup(r) \/ DeleteGroupSelect(r) \/ DeleteGroupDelete(r)
    \/ DeleteGroupCommit(r)

JoinGroupStep(r) ==
    \/ StartJoinGroup(r) \/ JoinGroupSelect(r)
    \/ MemberInsert(r) \/ MemberInsertUpdate(r) \/ MemberInsertCommit(r)

RemoveMemberStep(r) ==
    \/ StartRemoveMember(r) \/ RemoveMemberSelect(r) \/ RemoveMemberDelete(r)
    \/ RemoveMemberUpdate(r) \/ RemoveMemberCommit(r)

CreateGroupPostStep(r) ==
    \/ StartCreateGroupPost(r) \/ CreateGroupPostSelect(r) \/ CreateGroupPostUpload(r)
    \/ CreateGroupPostUploadFails(r) \/ CreateGroupPostInsert(r)

DeleteGroupPostStep(r) ==
    \/ StartDeleteGroupPost(r) \/ DeleteGroupPostSelect(r) \/ DeleteGroupPostAdmin(r)
    \/ DeleteGroupPostDelete(r) \/ DeleteGroupPostMedia(r)
    \/ DeleteGroupPostMediaFails(r)

\* handlers that take a client from the pool, one request at a time, with
\* every awaited query, the ROLLBACK of the catch block included, able to fail
PoolNext ==
    \E r \in {1} :
        \/ AddLikeStep(r) \/ AddCommentStep(r)
        \/ CreateGroupStep(r) \/ DeleteGroupStep(r) \/ JoinGroupStep(r)
        \/ CreateGroupPostStep(r) \/ DeleteGroupPostStep(r)
        \/ SharedStep(r) \/ CatchRollbackFails(r) \/ ConnectFails(r)

SpecPool == Init /\ [][PoolNext]_vars

\* posts with and without a group, created and deleted one request at a time,
\* with the media calls able to fail
MediaNext ==
    \E r \in {1} :
        \/ CreatePostStep(r, {Undefined}) \/ DeletePostStep(r)
        \/ CreateGroupStep(r) \/ CreateGroupPostStep(r) \/ DeleteGroupPostStep(r)
        \/ Begin(r) \/ QueryFails(r) \/ Catch(r)

SpecMedia == Init /\ [][MediaNext]_vars

\* deleteGroupPost requests concurrent with each other and with a createGroup,
\* joinGroup, removeMember or createGroupPost request
GroupPostsNext ==
    \/ \E r \in {1} :
          \/ CreateGroupStep(r) \/ JoinGroupStep(r) \/ RemoveMemberStep(r)
          \/ CreateGroupPostStep(r)
    \/ \E r \in Slots : DeleteGroupPostStep(r) \/ SharedStep(r)

SpecGroupPosts == Init /\ [][GroupPostsNext]_vars

GroupStep(r) ==
    \/ StartCreateGroup(r) \/ CreateGroupValidate(r) \/ CreateGroupInsertGroup(r)
    \/ CreateGroupInsertMember(r) \/ CreateGroupUpdate(r) \/ CreateGroupCommit(r)
    \/ StartUpdateGroup(r) \/ UpdateGroupSelect(r) \/ UpdateGroupUpdate(r)
    \/ StartDeleteGroup(r) \/ DeleteGroupSelect(r) \/ DeleteGroupDelete(r)
    \/ DeleteGroupCommit(r)
    \/ StartJoinGroup(r) \/ JoinGroupSelect(r) \/ StartAddMember(r) \/ AddMemberSelect(r)
    \/ MemberInsert(r) \/ MemberInsertUpdate(r) \/ MemberInsertCommit(r)
    \/ StartRemoveMember(r) \/ RemoveMemberSelect(r) \/ RemoveMemberDelete(r)
    \/ RemoveMemberUpdate(r) \/ RemoveMemberCommit(r)

\* concurrent requests to the group handlers
GroupsNext == \E r \in Slots : GroupStep(r) \/ SharedStep(r)

SpecGroups == Init /\ [][GroupsNext]_vars

\* the transactions that maintain a counter, one request at a time, with every
\* awaited query able to fail
TxOps == {"like", "unlike", "addComment", "deleteComment",
          "createGroup", "joinGroup", "addMember", "removeMember"}

TxGroupStep(r) ==
    \/ StartCreateGroup(r) \/ CreateGroupValidate(r) \/ CreateGroupInsertGroup(r)
    \/ CreateGroupInsertMember(r) \/ CreateGroupUpdate(r) \/ CreateGroupCommit(r)
    \/ StartJoinGroup(r) \/ JoinGroupSelect(r) \/ StartAddMember(r) \/ AddMemberSelect(r)
    \/ MemberInsert(r) \/ MemberInsertUpdate(r) \/ MemberInsertCommit(r)
    \/ StartRemoveMember(r) \/ RemoveMemberSelect(r) \/ RemoveMemberDelete(r)
    \/ RemoveMemberUpdate(r) \/ RemoveMemberCommit(r)

TxNext ==
    \E r \in {1} :
        \/ CreatePostStep(r, {Undefined}) \/ LikeStep(r) \/ CommentStep(r)
        \/ TxGroupStep(r) \/ SharedStep(r)

SpecTx == Init /\ [][TxNext]_vars

\* the middleware and the routes behind it
AuthNext ==
    \/ \E route \in ProtectedRoutes, header \in Headers : StartProtected(route, header)
    \/ AuthenticateToken
    \/ AuthLookup
    \/ AuthLookupFails
    \/ Logout
    \/ LogoutAll
    \/ \E u \in Users : Login(u)
    \/ Tick
    \/ cleanExpiredTokens
    \/ \E u \in Users : DeactivateUser(u) \/ DeleteUserRow(u)

SpecAuth == Init /\ [][AuthNext]_vars

\* follow and unfollow requests, two at a time, while accounts are deactivated
FollowNext ==
    \/ \E r \in Slots : FollowStep(r) \/ UnfollowStep(r) \/ QueryFails(r) \/ Catch(r)
    \/ \E u \in Users : DeactivateUser(u)

SpecFollow == Init /\ [][FollowNext]_vars

\* one request at a time: posts are created and liked, users follow and
\* unfollow, and the feed is read
FeedNext ==
    \E r \in {1} :
        \/ CreatePostStep(r, {Undefined}) \/ AddLikeStep(r)
        \/ FollowStep(r) \/ UnfollowStep(r) \/ FeedStep(r)
        \/ SharedStep(r)

SpecFeed == Init /\ [][FeedNext]_vars

OptionalNext ==
    \/ \E header \in Headers : StartOptional(header)
    \/ OptionalAuth
    \/ OptionalLookup
    \/ OptionalLookupFails
    \/ OptionalRouteDone
    \/ Tick
    \/ \E u \in Users : DeactivateUser(u) \/ DeleteUserRow(u)

SpecOptional == Init /\ [][OptionalNext]_vars

\* a deployment with any configured refresh lifetime
InitConfigured ==
    /\ InitPosts
    /\ InitGroups
    /\ followers = EmptyBag
    /\ req = [r \in Slots |-> Idle]
    /\ users = [u \in Users |-> [is_active |-> TRUE]]
    /\ refresh_tokens = {}
    /\ now = 0
    /\ used = {}
    /\ areq = AIdle
    /\ env \in RefreshLifetimes
    /\ timer = [due |-> SweepInterval, alive |-> TRUE]

\* tokens issued and swept under any configured refresh lifetime
ExpiryNext ==
    \/ \E u \in Users : Login(u)
    \/ Tick
    \/ cleanExpiredTokens

SpecExpiry == InitConfigured /\ [][ExpiryNext]_vars

\* the sweep on its timer, with logins and the clock
SweepNext ==
    \/ \E u \in Users : Login(u)
    \/ Tick
    \/ SweepRun
    \/ SweepFails

\* the event loop runs a timer that is due
SpecSweep == Init /\ [][SweepNext]_vars /\ WF_vars(SweepRun \/ SweepFails)

\* the rotation of the refresh tokens
RefreshNext ==
    \/ \E u \in Users : Login(u)
    \/ \E tok \in RefreshTokenInputs : StartRefresh(tok)
    \/ Refresh
    \/ Tick
    \/ cleanExpiredTokens

SpecRefresh == Init /\ [][RefreshNext]_vars

---------------------------------------------------------------------------
(* Claims *)

Answered(r, o, code) == req[r].pc = "done" /\ req[r].op = o /\ req[r].resp = code

\* slot r takes a step
Moves(r) == req'[r] # req[r]

tables == <<posts, likes, comments, groups, members>>

\* C1: between transactions every post's likes_count is the number of the
\* likes rows of that post, whatever the interleaving of like, unlike,
\* createPost and deletePost requests
C1_LikesCountMatches ==
    \A p \in DOMAIN posts : posts[p].likes_count = Cardinality(LikesOf(p))

\* two users like the same post and an unlike has committed
C1_Witness ==
    /\ \E p \in DOMAIN posts : posts[p].likes_count = 2 /\ Cardinality(LikesOf(p)) = 2
    /\ \E r \in Slots : Answered(r, "unlike", 200)

\* C2: between transactions every post's comments_count is the number of the
\* comments rows of that post, whatever the interleaving of addComment and
\* deleteComment requests and whatever their path parameters
C2_CommentsCountMatches ==
    \A p \in DOMAIN posts : posts[p].comments_count = Cardinality(CommentsOf(p))

\* C3: every group's members_count is the number of its group_members rows,
\* whatever the interleaving of createGroup, joinGroup, addMember, removeMember
\* and deleteGroup requests
C3_MembersCountMatches ==
    \A g \in DOMAIN groups :
        groups[g].members_count = Cardinality({m \in members : m.group_id = g})

\* a group of two members after a member has been removed
C3_Witness ==
    /\ \E g \in DOMAIN groups : groups[g].members_count = 2
    /\ \E r \in Slots : Answered(r, "removeMember", 200)

\* C4: a like request whose check finds the likes row of its user and post is
\* answered 409 (500 if a query of it rejects) and none of its steps changes the
\* likes or a counter; a like request changes them at its COMMIT only
C4_SecondLikeConflict ==
    [][\A r \in Slots :
         /\ (At(r, "like", "selLike") /\ Moves(r)
               /\ <<req[r].userId, req[r].postId>> \in likes)
            => req'[r].pc \in {"rb409", "catch"}
         /\ (At(r, "like", "rb409") /\ Moves(r))
            => (req'[r].resp = 409 \/ req'[r].pc = "catch")
         /\ (req[r].op = "like" /\ req[r].pc # "commit" /\ Moves(r))
            => UNCHANGED tables]_vars

\* a like was answered 409 while the post carries exactly the one like
C4_Witness ==
    \E r \in Slots :
        /\ Answered(r, "like", 409)
        /\ \E p \in DOMAIN posts : posts[p].likes_count = 1 /\ Cardinality(LikesOf(p)) = 1

\* C6: updateCaption and deletePost on a post of another user, and deleteComment
\* on a comment of another user, are answered 403 (500 if a query rejects) and
\* leave every table as it was
C6_NonOwnerRejected ==
    [][\A r \in Slots :
         /\ (req[r].op \in {"updateCaption", "deletePost"} /\ req[r].pc = "select"
               /\ Moves(r) /\ req[r].postId \in DOMAIN posts
               /\ posts[req[r].postId].user_id # req[r].userId)
            => (req'[r].resp = 403 \/ req'[r].pc = "catch") /\ UNCHANGED tables
         /\ (At(r, "deleteComment", "selComment") /\ Moves(r)
               /\ req[r].commentId \in DOMAIN comments
               /\ comments[req[r].commentId].user_id # req[r].userId)
            => req'[r].pc \in {"rb403", "catch"} /\ UNCHANGED tables
         /\ (At(r, "deleteComment", "rb403") /\ Moves(r))
            => (req'[r].resp = 403 \/ req'[r].pc = "catch") /\ UNCHANGED tables]_vars

\* a deleteComment and an updateCaption or deletePost were answered 403 and the
\* post and the comment are still there
C6_Witness ==
    /\ \E r \in Slots : Answered(r, "deleteComment", 403)
    /\ \E r \in Slots : Answered(r, "updateCaption", 403) \/ Answered(r, "deletePost", 403)
    /\ DOMAIN comments # {}

\* C8: a transaction that maintains a counter changes the tables at its COMMIT
\* only: a step that fails, the ROLLBACK that follows it (answered 500) and every
\* step before the COMMIT leave relation and counter as they were
C8_AtomicCounterWrites ==
    [][\A r \in Slots :
         /\ (req[r].op \in TxOps /\ req[r].pc # "commit" /\ Moves(r))
            => UNCHANGED tables
         /\ (req[r].op \in TxOps /\ req[r].pc = "catch" /\ Moves(r))
            => req'[r].resp = 500]_vars

\* a transaction was rolled back after its insert while rows and counters exist
C8_Witness ==
    /\ \E r \in Slots : req[r].pc = "done" /\ req[r].op \in TxOps /\ req[r].resp = 500
    /\ \E p \in DOMAIN posts : posts[p].likes_count = 1 /\ posts[p].comments_count = 1
    /\ \E g \in DOMAIN groups : groups[g].members_count = 2

\* C9: a joinGroup request never commits a membership row for a group that is
\* private when the row is committed
C9_NoJoinOfPrivateGroup ==
    [][\A r \in Slots :
         (At(r, "joinGroup", "commit") /\ Moves(r) /\ members' # members)
         => ~groups[req[r].groupId].is_private]_vars

\* C10: a joinGroup whose insert finds a row of its user in the group inserts
\* nothing (rowCount 0) and its COMMIT, answered 200, changes neither the rows
\* (so not the role) nor members_count; one whose insert finds none adds the row
\* (group, user, 'member') and 1 to members_count at its COMMIT, answered 200;
\* no user ever has two rows in a group
C10_JoinIdempotent ==
    /\ [](\A g \in GroupIds, u \in Users : Cardinality(MemberRows(g, u)) <= 1)
    /\ [][\A r \in Slots :
            /\ (At(r, "joinGroup", "insert") /\ Moves(r) /\ req'[r].pc # "catch")
               => IF MemberRows(req[r].groupId, req[r].userId) # {}
                  THEN req'[r].rows = 0 /\ req'[r].pc = "commit"
                  ELSE req'[r].rows = 1 /\ req'[r].pc = "update"
            /\ (At(r, "joinGroup", "commit") /\ req'[r].pc = "done")
               => /\ req'[r].resp = 200
                  /\ IF req[r].rows = 0
                     THEN members' = members /\ groups' = groups
                     ELSE /\ MemberRows(req[r].groupId, req[r].userId) = {}
                          /\ members' = members \cup {[group_id |-> req[r].groupId,
                                                       user_id |-> req[r].userId,
                                                       role |-> "member"]}
                          /\ groups'[req[r].groupId].members_count
                               = groups[req[r].groupId].members_count + 1]_vars

\* a join has been answered 200 and a repeat join of the joined user, whose
\* insert found the row, is about to commit
C10_Witness ==
    \E r1, r2 \in Slots :
        /\ At(r1, "joinGroup", "commit") /\ req[r1].rows = 0
        /\ \E m \in MemberRows(req[r1].groupId, req[r1].userId) : m.role = "member"
        /\ groups[req[r1].groupId].members_count = 2
        /\ Answered(r2, "joinGroup", 200)

\* C5: a refresh token that POST /auth/refresh has accepted is never accepted
\* again: every later refresh request that presents the same string is answered
\* InvalidToken
C5_UsedTokenNeverAcceptedAgain ==
    [][(areq.op = "refresh" /\ areq.pc = "refresh" /\ areq.token \in used
            /\ areq'.pc = "done")
           => areq'.message = "InvalidToken"]_vars

\* C7: a handler behind authenticateToken runs only for a request whose bearer
\* token verifies under the access secret and whose userId is the id of a row of
\* users with is_active = true; the middleware answers 401 when there is no
\* token, 403 when the token does not verify, and, when its query returns, 403
\* when the row is missing and 403 when the row is inactive, tested in this order
C7_AuthenticateTokenGate ==
    [][/\ (areq.pc = "authenticate" /\ areq' # areq) =>
              IF ~HasToken(areq.header)
                THEN areq'.pc = "done" /\ areq'.resp = 401
                ELSE IF ~verifyToken(areq.header.token, "access")
                       THEN /\ areq'.pc = "done" /\ areq'.resp = 403
                            /\ areq'.message = "Invalid or expired token"
                       ELSE areq'.pc = "lookup" /\ areq'.user = areq.header.token.userId
       /\ (areq.pc = "lookup" /\ areq' # areq) =>
              \/ areq'.pc = "done" /\ areq'.resp = 500
              \/ IF areq.user \notin DOMAIN users
                    THEN /\ areq'.pc = "done" /\ areq'.resp = 403
                         /\ areq'.message = "User not found"
                    ELSE IF ~users[areq.user].is_active
                           THEN /\ areq'.pc = "done" /\ areq'.resp = 403
                                /\ areq'.message = "Account is deactivated"
                           ELSE areq'.pc = "handler" /\ areq'.user = areq.user
       /\ (areq'.pc = "handler" /\ areq' # areq) =>
              /\ areq.pc = "lookup"
              /\ HasToken(areq.header) /\ areq.header.token.secret = "access"
              /\ areq.user \in DOMAIN users /\ users[areq.user].is_active
       /\ (areq'.pc = "lookup" /\ areq' # areq) => areq.pc = "authenticate"
       /\ (areq.pc \in {"authenticate", "lookup"} /\ areq' # areq) =>
              refresh_tokens' = refresh_tokens]_vars

\* the middleware has turned away the valid token of a deactivated account
C7_Witness ==
    /\ areq.op \in ProtectedRoutes /\ areq.pc = "done"
    /\ areq.resp = 403 /\ areq.message = "Account is deactivated"
    /\ \E u \in DOMAIN users : ~users[u].is_active

\* the posts that have been deleted: their id was handed out and their row is gone
DeletedPosts == {p \in 1..postSeq : p \notin DOMAIN posts}

\* C11: the DELETE of deletePost removes the post together with its likes and
\* comments rows, no likes or comments row ever names a post that is gone, a
\* deleted post stays deleted, and a getPost of it is answered 404 (500 if its
\* query rejects)
C11_DeletedPostIsGone ==
    /\ [](/\ \A l \in likes : l[2] \in DOMAIN posts
          /\ \A c \in DOMAIN comments : comments[c].post_id \in DOMAIN posts)
    /\ [][/\ \A p \in DeletedPosts : p \notin DOMAIN posts'
          /\ \A r \in Slots :
               /\ (At(r, "deletePost", "delete") /\ Moves(r) /\ req'[r].pc # "catch")
                  => /\ req[r].postId \notin DOMAIN posts'
                     /\ \A l \in likes' : l[2] # req[r].postId
                     /\ \A c \in DOMAIN comments' :
                            comments'[c].post_id # req[r].postId
               /\ (At(r, "getPost", "select") /\ Moves(r)
                     /\ req[r].postId \in DeletedPosts)
                  => (req'[r].resp = 404 \/ req'[r].pc = "catch")]_vars

\* a post that had a like and a comment was deleted with success, a getPost of
\* it was answered 404, and no likes or comments row is left
C11_Witness ==
    /\ \E r \in Slots : Answered(r, "deletePost", 200)
    /\ \E r \in Slots : Answered(r, "getPost", 404)
    /\ DeletedPosts # {} /\ commentSeq = 1 /\ comments = NoRows /\ likes = {}

\* C12: an unlike whose DELETE finds no likes row of its user and post rolls
\* back and is answered 404 (500 if a query rejects) without a change to any
\* table; likes_count, comments_count and members_count are never negative
C12_UnlikeMissingAndFloors ==
    /\ [](/\ \A p \in DOMAIN posts :
                posts[p].likes_count >= 0 /\ posts[p].comments_count >= 0
          /\ \A g \in DOMAIN groups : groups[g].members_count >= 0)
    /\ [][\A r \in Slots :
            /\ (At(r, "unlike", "delete") /\ Moves(r)
                  /\ <<req[r].userId, req[r].postId>> \notin likes)
               => req'[r].pc \in {"rb404", "catch"} /\ UNCHANGED tables
            /\ (At(r, "unlike", "rb404") /\ Moves(r))
               => (req'[r].resp = 404 \/ req'[r].pc = "catch") /\ UNCHANGED tables]_vars

\* an unlike of a post its user never liked was answered 404 while the post
\* carries the like of the other user
C12_Witness ==
    \E r \in Slots :
        /\ Answered(r, "unlike", 404)
        /\ \E p \in DOMAIN posts :
              posts[p].likes_count = 1 /\ Cardinality(LikesOf(p)) = 1

\* slot r holds a client of the pool
HoldsClient(r) == req[r].client

\* C13: a handler that took a client from the pool has released it when it
\* exits, on the success path, on an early 4xx return and after an exception
\* alike; it holds the client from pool.connect() up to that exit (the release
\* happens once, in the step that ends the handler), and takes it only once
C13_ClientReleasedOnExit ==
    /\ [](\A r \in Slots : Free(r) => ~HoldsClient(r))
    /\ [](\A r \in Slots :
            ~Free(r) /\ req[r].op \in ConnectsAtEntry => HoldsClient(r))
    /\ [][\A r \in Slots :
            /\ HoldsClient(r) /\ ~HoldsClient(r)' => req'[r].pc = "done"
            /\ ~HoldsClient(r) /\ HoldsClient(r)' =>
                  \/ Free(r)
                  \/ req[r].op = "createGroup" /\ req[r].pc = "validate"]_vars

\* an addComment request whose query failed has been answered 500
C13_Witness == Answered(1, "addComment", 500) /\ ~HoldsClient(1)

\* the catch block of slot r belongs to a handler that opened a transaction
\* and was reached by a failed query
InTxCatch(r) == req[r].pc = "catch" /\ req[r].op \in RollbackInCatch

\* C14: a handler whose multi-step write failed has answered 500 and logged
\* the error of the failed step when its catch block ends, whether or not the
\* ROLLBACK of that block succeeds
C14_CatchAnswers500 ==
    [][\A r \in Slots :
         InTxCatch(r) /\ req'[r].pc = "done" =>
             req'[r].resp = 500 /\ req'[r].logged = "error"]_vars

\* C15: a request whose media upload is in progress holds no client of the pool
C15_NoClientDuringUpload ==
    \A r \in Slots : req[r].pc = "upload" => ~HoldsClient(r)

\* C16: updateGroup and deleteGroup answer 404, never 403, for a group that
\* does not exist when the request is answered (no request creates groups in
\* the meantime: ids are never reused)
C16_MissingGroupIs404 ==
    [][\A r \in Slots :
         /\ req[r].op \in {"updateGroup", "deleteGroup"}
         /\ req[r].groupId \notin DOMAIN groups
         /\ req[r].groupId > groupSeq
         /\ req'[r].pc = "done"
         => req'[r].resp # 403]_vars

\* slot r is past the DELETE of its post and at the media calls
AtMedia(r) == req[r].op \in {"deletePost", "deleteGroupPost"} /\ req[r].pc = "media"

\* C17: once deletePost or deleteGroupPost has passed its checks and deleted
\* the posts row, the row stays deleted and the request is answered with
\* success, whether the media calls return or throw
C17_MediaFailureSwallowed ==
    /\ [](\A r \in Slots : AtMedia(r) => req[r].postId \notin DOMAIN posts)
    /\ [][\A r \in Slots :
            AtMedia(r) /\ req'[r].pc # "media" =>
                /\ req'[r].pc = "done" /\ req'[r].resp = 200
                /\ req[r].postId \notin DOMAIN posts']_vars

\* a deleteGroupPost request whose media call threw has been answered 200
C17_Witness ==
    /\ Answered(1, "deleteGroupPost", 200) /\ req[1].logged = "media"
    /\ DeletedPosts # {}

\* slot r runs updateGroup or deleteGroup
AdminOp(r) == req[r].op \in {"updateGroup", "deleteGroup"}

\* C18: updateGroup and deleteGroup go past their admin query only for a
\* caller whose group_members row has role admin when the query runs; any
\* other caller (a plain member, not a member) is answered 403, and no step of
\* such a request changes the groups or group_members tables: these change
\* only in the steps after the query
C18_AdminOnly ==
    [][\A r \in Slots :
         AdminOp(r) /\ Moves(r) =>
            /\ req[r].pc = "select" =>
                  /\ <<groups, members>>' = <<groups, members>>
                  /\ IF IsAdmin(req[r].groupId, req[r].userId)
                     THEN req'[r].pc \in {"update", "begin", "catch"}
                     ELSE \/ req'[r].pc = "done" /\ req'[r].resp = 403
                          \/ req'[r].pc = "catch"
            /\ <<groups, members>>' # <<groups, members>> =>
                  req[r].pc \in {"update", "commit"}]_vars

\* an updateGroup request of a plain member of an existing group has been
\* answered 403
C18_Witness ==
    \E r \in Slots :
        /\ Answered(r, "updateGroup", 403)
        /\ \E m \in members : m.role = "member"

\* the requester of the removeMember request in slot r may remove the member:
\* an admin of the group, or the member themself
MayRemove(r) ==
    IsAdmin(req[r].groupId, req[r].userId) \/ req[r].memberId = req[r].userId

\* C19: a removeMember request goes past its first query only if the
\* requester is an admin of the group or the member; any other requester is
\* answered 403; a permitted request whose DELETE finds no row is answered 404
\* (500 when a query fails); neither changes group_members or members_count; the request that succeeds
\* removes exactly the member's row and lowers members_count by 1, not below 0
C19_RemoveMember ==
    [][\A r \in Slots :
         req[r].op = "removeMember" /\ Moves(r) =>
            /\ req[r].pc = "select" =>
                  IF MayRemove(r)
                  THEN req'[r].pc \in {"begin", "catch"}
                  ELSE \/ req'[r].pc = "done" /\ req'[r].resp = 403
                       \/ req'[r].pc = "catch"
            /\ req[r].pc = "delete" /\ MemberRows(req[r].groupId, req[r].memberId) = {} =>
                  req'[r].pc \in {"rb404", "catch"}
            /\ req[r].pc = "rb404" =>
                  \/ req'[r].pc = "done" /\ req'[r].resp = 404
                  \/ req'[r].pc = "catch"
            /\ req[r].pc # "commit" \/ req'[r].pc = "catch" =>
                  <<groups, members>>' = <<groups, members>>
            /\ req[r].pc = "commit" /\ req'[r].pc # "catch" =>
                  /\ req'[r].pc = "done" /\ req'[r].resp = 200
                  /\ MemberRows(req[r].groupId, req[r].memberId) # {}
                  /\ members' = members \ MemberRows(req[r].groupId, req[r].memberId)
                  /\ req[r].groupId \in DOMAIN groups /\ DOMAIN groups' = DOMAIN groups
                  /\ LET n == groups[req[r].groupId].members_count
                     IN  groups'[req[r].groupId].members_count =
                            IF n >= 1 THEN n - 1 ELSE 0]_vars

\* a member has been removed by the admin, a removal by a requester who is
\* neither admin nor the member is being answered 403
C19_Witness ==
    /\ Answered(1, "removeMember", 200)
    /\ Answered(2, "removeMember", 403)
    /\ \E g \in DOMAIN groups : groups[g].members_count = Cardinality(members)

\* C20: a createGroupPost request goes past its membership query only if the
\* caller has a group_members row of the group when the query runs, otherwise
\* it is answered 403; only its INSERT adds a posts row, and that row belongs
\* to the caller and the group. A deleteGroupPost request of a post of another
\* user goes past its admin query only if the caller is an admin of the
\* group, otherwise it is answered 403; the author goes straight to the
\* DELETE; only the DELETE step removes a posts row, and only the post named
C20_GroupPostAuthorization ==
    [][\A r \in Slots :
         /\ req[r].op = "createGroupPost" /\ Moves(r) =>
               /\ req[r].pc = "select" =>
                     IF MemberRows(req[r].groupId, req[r].userId) # {}
                     THEN req'[r].pc \in {"upload", "insert", "catch"}
                     ELSE \/ req'[r].pc = "done" /\ req'[r].resp = 403
                          \/ req'[r].pc = "catch"
               /\ posts' # posts =>
                     /\ req[r].pc = "insert" /\ req'[r].resp = 201
                     /\ DOMAIN posts' = DOMAIN posts \cup {postSeq'}
                     /\ posts'[postSeq'].user_id = req[r].userId
                     /\ posts'[postSeq'].group_id = req[r].groupId
         /\ req[r].op = "deleteGroupPost" /\ Moves(r) =>
               /\ req[r].pc = "select" /\ req'[r].pc = "delete" =>
                     /\ req[r].postId \in PostsOfGroup(req[r].groupId)
                     /\ posts[req[r].postId].user_id = req[r].userId
               /\ req[r].pc = "selAdmin" =>
                     IF IsAdmin(req[r].groupId, req[r].userId)
                     THEN req'[r].pc \in {"delete", "catch"}
                     ELSE \/ req'[r].pc = "done" /\ req'[r].resp = 403
                          \/ req'[r].pc = "catch"
               /\ posts' # posts =>
                     /\ req[r].pc = "delete"
                     /\ DOMAIN posts' = DOMAIN posts \ {req[r].postId}]_vars

\* a post of the group exists, a non-member's createGroupPost request and a
\* plain member's deleteGroupPost request of another user's post have been
\* answered 403
C20_Witness ==
    /\ Answered(1, "createGroupPost", 403)
    /\ Answered(2, "deleteGroupPost", 403)
    /\ \E g \in DOMAIN groups : PostsOfGroup(g) # {}

\* C26: with no storage failure, every like request is answered 200 (its row
\* and the increment committed), 404 or 409; of two concurrent like requests of
\* one user for one post the one that does not commit is answered 409
C26_ConcurrentLikeConflict ==
    \A r \in Slots :
        req[r].op = "like" /\ req[r].pc = "done" => req[r].resp \in {200, 404, 409}

\* C27: the step that commits a deleteComment of an existing comment lowers
\* comments_count of the post the comment belongs to by 1 and changes the
\* comments_count of no other post
C27_DeleteCommentCounterFrame ==
    [][\A r \in Slots :
         /\ At(r, "deleteComment", "commit") /\ req'[r].pc = "done"
         /\ req[r].commentId \in DOMAIN comments
         => LET own == comments[req[r].commentId].post_id
            IN  /\ DOMAIN posts' = DOMAIN posts
                /\ own \in DOMAIN posts
                /\ posts'[own].comments_count = posts[own].comments_count - 1
                /\ \A q \in DOMAIN posts \ {own} :
                      posts'[q].comments_count = posts[q].comments_count]_vars

\* C29: every existing group has a group_members row with role admin
C29_GroupHasAdmin ==
    \A g \in DOMAIN groups : \E m \in members : m.group_id = g /\ m.role = "admin"

\* a login is answered in this step (generateTokens and storeRefreshToken ran)
LoginStep ==
    /\ areq'.op = "login" /\ areq'.pc = "done"
    /\ areq' # areq \/ refresh_tokens' # refresh_tokens

\* C30: every generateTokens + storeRefreshToken call for an existing user
\* adds exactly one row to refresh_tokens, with a token string that no row
\* stored before it holds
C30_EveryIssueStoresFreshToken ==
    [][LoginStep =>
         \E t \in refresh_tokens' \ refresh_tokens :
             /\ refresh_tokens' = refresh_tokens \cup {t}
             /\ \A old \in refresh_tokens : old.token # t.token]_vars

\* C23: every stored refresh token row expires at its creation time plus the
\* configured refresh lifetime, which is the exp claim of its token
C23_StoredExpiryMatchesToken ==
    \A t \in refresh_tokens :
        t.expires_at = t.token.iat + env /\ t.expires_at = t.token.exp

\* C24: the timer stays armed for as long as the process runs and every due
\* run takes place; a run removes exactly the rows whose expires_at is earlier
\* than the current time, or, when its query fails, removes nothing; either way
\* the timer is armed for the next interval
C24_SweepEveryInterval ==
    /\ [](timer.alive)
    /\ [][timer' # timer =>
            /\ timer'.alive /\ timer'.due = timer.due + SweepInterval
            /\ \/ refresh_tokens' = refresh_tokens \ ExpiredRows
               \/ refresh_tokens' = refresh_tokens]_vars
    /\ \A k \in 1..MaxClock : [](now >= k => <>(timer.due > k))

\* a login stored a row, the clock passed its expiry, and the runs of the
\* sweep that were due have taken place and removed it
C24_Witness ==
    /\ areq.op = "login" /\ areq.resp = 200
    /\ now = MaxClock /\ timer.due > MaxClock
    /\ refresh_tokens = {}

\* C25: optionalAuth never answers: whatever the header, the token, the row of
\* users or the outcome of its query, it calls next() exactly once and sends no
\* response; req.user is set, to the row of the token's userId, exactly when the
\* token verifies under the access secret and the query returns a row with
\* is_active = true
C25_OptionalAuthNeverRejects ==
    [][(areq.op = "optional" /\ areq' # areq) =>
          /\ areq.pc \in {"authenticate", "lookup", "handler"} =>
                areq'.op = "optional" /\ areq'.resp = NoResp
          /\ areq.pc = "authenticate" =>
                IF HasToken(areq.header) /\ verifyToken(areq.header.token, "access")
                  THEN /\ areq'.pc = "lookup" /\ areq'.nexts = 0 /\ areq'.user = 0
                       /\ areq'.token = areq.header.token
                  ELSE areq'.pc = "handler" /\ areq'.nexts = 1 /\ areq'.user = 0
          /\ areq.pc = "lookup" =>
                /\ areq'.pc = "handler" /\ areq'.nexts = 1
                /\ \/ areq'.logged = "Optional auth error" /\ areq'.user = 0
                   \/ /\ areq'.logged = ""
                      /\ areq'.user =
                            IF /\ areq.token.userId \in DOMAIN users
                               /\ users[areq.token.userId].is_active
                              THEN areq.token.userId ELSE 0
          /\ areq.pc = "handler" =>
                /\ areq'.pc = "done" /\ areq'.nexts = 1
                /\ areq'.user = areq.user]_vars

\* a verifying token of a deactivated account went through: next() was called
\* once, req.user stayed unset and nothing was answered
C25_Witness ==
    /\ areq.op = "optional" /\ areq.pc = "done"
    /\ areq.nexts = 1 /\ areq.resp = NoResp /\ areq.user = 0 /\ areq.logged = ""
    /\ HasToken(areq.header) /\ verifyToken(areq.header.token, "access")
    /\ areq.header.token.userId \in DOMAIN users
    /\ ~users[areq.header.token.userId].is_active

\* the handlers that take a client of the pool and open a transaction on it
TransactionalEndpoints == {"like", "unlike", "addComment", "deleteComment",
                           "deleteGroup", "joinGroup", "addMember", "removeMember"}

\* C28: a request to a transactional endpoint that has left its handler has
\* been answered, and when a failure of the store ended it (no client from the
\* pool, a rejected query, a rejected ROLLBACK) the answer is the 500 with the
\* message "Internal server error"
C28_FailuresAnswered500 ==
    \A r \in Slots :
        req[r].pc = "done" /\ req[r].op \in TransactionalEndpoints =>
            /\ req[r].resp # NoResp
            /\ req[r].resp = 500 => req[r].message = InternalServerError

\* C21: the followers table never holds a row with follower_id = following_id
\* nor two rows of one (follower_id, following_id) pair; a follow request that
\* names the requester is answered 400, one whose pair is in the table when the
\* handler looks for it is answered 409, and neither changes the table
C21_FollowersNoSelfNoDuplicate ==
    /\ [](\A e \in DOMAIN followers : e[1] # e[2] /\ followers[e] = 1)
    /\ [][\A r \in Slots :
            /\ (/\ At(r, "follow", "selUser") /\ req'[r] # req[r]
                /\ UserFound(req[r].arg) /\ req[r].userId = req[r].arg) =>
                  /\ followers' = followers
                  /\ \/ req'[r].pc = "done" /\ req'[r].resp = 400
                     \/ req'[r].pc = "catch"
            /\ (/\ At(r, "follow", "selFollow") /\ req'[r] # req[r]
                /\ BagIn(Edge(r), followers)) =>
                  /\ followers' = followers
                  /\ \/ req'[r].pc = "done" /\ req'[r].resp = 409
                     \/ req'[r].pc = "catch"
            /\ (req[r].op = "follow" /\ req'[r] # req[r] /\ followers' # followers) =>
                  /\ req[r].pc = "insert" /\ req[r].userId # req[r].arg
                  /\ ~BagIn(Edge(r), followers)
                  /\ followers' = followers (+) SetToBag({Edge(r)})]_vars

\* user 1 follows user 2 and has been told so for a second follow request,
\* after a request to follow itself was turned away
C21_Witness ==
    /\ BagIn(<<1, 2>>, followers)
    /\ Answered(1, "follow", 409)
    /\ Answered(2, "follow", 400)

\* the posts whose author is u or a user that u follows
AuthoredByFollowed(u) ==
    {p \in DOMAIN posts :
        posts[p].user_id = u \/ BagIn(<<u, posts[p].user_id>>, followers)}

\* how many posts of S are newer than p
Newer(S, p) == Cardinality({q \in S : CreatedAt(q) > CreatedAt(p)})

\* the answer f to requester u is ordered by creation time, newest first, and
\* each of its posts carries the stored likes_count and isLiked = there is a
\* row (u, post) in likes
FeedRowsRight(f, u) ==
    /\ \A i, j \in 1..Len(f) : i < j => CreatedAt(f[i].id) > CreatedAt(f[j].id)
    /\ \A i \in 1..Len(f) :
          /\ f[i].id \in DOMAIN posts
          /\ f[i].likesCount = posts[f[i].id].likes_count
          /\ f[i].isLiked <=> <<u, f[i].id>> \in likes

============================================================================
